---- MODULE Spec2Model ----
(***************************************************************************)
(* A model of the file-to-Markdown converter: the batch loop               *)
(* convertFilesToMarkdown, the format dispatch, the word-processing        *)
(* extractor, the CSV, JSON, XML and plain-text converters, the table rule *)
(* of the hypertext transform, the segmented conversion of a hypertext     *)
(* page, the cleanup normalizer, the retrieval of a DocSend link and the   *)
(* App component with its file selection.                                  *)
(*                                                                         *)
(* Strings are sequences of one-character strings, so that every regular   *)
(* expression of the source is an operator that scans characters.          *)
(* Indices of the source (0-based) are kept where they are program state   *)
(* (the loop index i); positions inside a sequence are 1-based.            *)
(***************************************************************************)
EXTENDS Integers, Sequences, FiniteSets, TLC

VARIABLES
    files,          \* the File[] handed to convertFilesToMarkdown
    i,              \* the loop index of convertFilesToMarkdown
    pc,             \* where the async function is suspended
    pending,        \* the settled value of the promise being awaited
    markdownFiles,  \* the MarkdownFile[] being built
    inFlight,       \* indices of files whose read or conversion has started and not settled
    events,         \* history: every onProgress call, read start, append and the resolve
    result,         \* what the promise of convertFilesToMarkdown settled with
    clInput,        \* cleanup harness: the string given
    clOnce,         \* cleanup harness: cleanupMarkdownContent(clInput)
    clTwice,        \* cleanup harness: cleanupMarkdownContent(clOnce)
    clStage,        \* cleanup harness: how many passes have run
    dxParagraph,    \* extractor harness: the paragraph element given
    dxText,         \* extractor harness: extractParagraphText(dxParagraph)
    dxStage,        \* extractor harness: whether the call has returned
    csvInput,       \* CSV harness: the line, or the file content, given
    csvFields,      \* CSV harness: parseCSVLine(csvInput)
    csvOutput,      \* CSV harness: convertCsvToMarkdown(csvInput)
    csvStage,       \* CSV harness: whether the call has returned
    jsInput,        \* JSON harness: the text given
    jsOutput,       \* JSON harness: what convertJsonToMarkdown(jsInput) completed with
    jsStage,        \* JSON harness: whether the call has returned
    txInput,        \* plain-text harness: the text given
    txOutput,       \* plain-text harness: convertPlainTextToMarkdown(txInput)
    txStage,        \* plain-text harness: whether the call has returned
    htInput,        \* hypertext harness: the page given
    htOutput,       \* hypertext harness: what processHtmlContent(htInput) settled with
    htStage,        \* hypertext harness: whether the call has settled
    tbRows,         \* table harness: the rows (tr) of the table element given
    tbMarkdown,     \* table harness: what the table rule returns for it
    tbStage,        \* table harness: whether the rule has returned
    xmInput,        \* XML harness: the content given
    xmOutput,       \* XML harness: convertXmlToMarkdown(xmInput)
    xmStage,        \* XML harness: whether the call has returned
    dsUrl,          \* link harness: the URL given
    dsMethod,       \* link harness: the number of the access method being tried
    dsHtml,         \* link harness: the markup the method returned
    dsLastError,    \* link harness: the message of lastError, empty for null
    dsAttempts,     \* link harness, history: the methods called, in order
    dsOutcomes,     \* link harness, history: what each attempt ended with
    dsResult,       \* link harness: what the promise of processDocSendLink settled with
    dsStage,        \* link harness: where processDocSendLink is suspended
    apSelected,     \* App harness: selectedFiles.length of FileUpload
    apLoading,      \* App harness: the state loading of App
    apError,        \* App harness: the state error of App, empty for null
    apProgress,     \* App harness: the state progress of App, empty for null
    apMarkdownFiles, \* App harness: markdownFiles.length of App
    apShown,        \* App harness: the loading FileUpload was last rendered with
    apBatches,      \* App harness, history: the batches started, in order
    apStage         \* App harness: whether the component is mounted

batchVars == <<files, i, pc, pending, markdownFiles, inFlight, events, result>>
cleanupVars == <<clInput, clOnce, clTwice, clStage>>
docxVars == <<dxParagraph, dxText, dxStage>>
csvVars == <<csvInput, csvFields, csvOutput, csvStage>>
jsonVars == <<jsInput, jsOutput, jsStage>>
textVars == <<txInput, txOutput, txStage>>
htmlVars == <<htInput, htOutput, htStage>>
tableVars == <<tbRows, tbMarkdown, tbStage>>
xmlVars == <<xmInput, xmOutput, xmStage>>
docsendVars == <<dsUrl, dsMethod, dsHtml, dsLastError, dsAttempts, dsOutcomes, dsResult, dsStage>>
appVars == <<apSelected, apLoading, apError, apProgress, apMarkdownFiles, apShown, apBatches,
            apStage>>
harnessVars == <<cleanupVars, docxVars, csvVars, jsonVars, textVars, htmlVars,
                 tableVars, xmlVars, docsendVars, appVars>>
vars == <<batchVars, harnessVars>>

----------------------------------------------------------------------------
(* Characters and the string primitives of JavaScript used by the source.  *)

NL == "\n"
TAB == "\t"
\* characters a string of this module cannot hold, each under a name
BACKTICK == "U+0060"
BULLET == "U+2022"

\* the characters \s and String.prototype.trim treat as white space
WS == {" ", "\t", "\n", "\r"}

UpperLetters == <<"A","B","C","D","E","F","G","H","I","J","K","L","M",
                  "N","O","P","Q","R","S","T","U","V","W","X","Y","Z">>
LowerLetters == <<"a","b","c","d","e","f","g","h","i","j","k","l","m",
                  "n","o","p","q","r","s","t","u","v","w","x","y","z">>
Digits == <<"0","1","2","3","4","5","6","7","8","9">>

Range(f) == {f[k] : k \in DOMAIN f}
IsUpper(c) == c \in Range(UpperLetters)
IsLower(c) == c \in Range(LowerLetters)
IsLetter(c) == IsUpper(c) \/ IsLower(c)
IsDigit(c) == c \in Range(Digits)
DigitValue(c) == (CHOOSE k \in 1..10 : Digits[k] = c) - 1

LowerChar(c) == IF IsUpper(c) THEN LowerLetters[CHOOSE k \in 1..26 : UpperLetters[k] = c] ELSE c
ToLowerCase(s) == [k \in 1..Len(s) |-> LowerChar(s[k])]

Min(a, b) == IF a <= b THEN a ELSE b

RECURSIVE TrimStart(_)
TrimStart(s) ==
    IF s = <<>> THEN <<>>
    ELSE IF Head(s) \in WS THEN TrimStart(Tail(s)) ELSE s

RECURSIVE TrimEnd(_)
TrimEnd(s) ==
    IF s = <<>> THEN <<>>
    ELSE IF s[Len(s)] \in WS THEN TrimEnd(SubSeq(s, 1, Len(s) - 1)) ELSE s

Trim(s) == TrimEnd(TrimStart(s))

EndsWith(s, sub) ==
    Len(sub) <= Len(s) /\ SubSeq(s, Len(s) - Len(sub) + 1, Len(s)) = sub

StartsWith(s, sub) ==
    Len(sub) <= Len(s) /\ SubSeq(s, 1, Len(sub)) = sub

Includes(s, sub) ==
    \E p \in 1..(Len(s) - Len(sub) + 1) : SubSeq(s, p, p + Len(sub) - 1) = sub

\* the number of consecutive characters of the set cs in s from position p on
RECURSIVE RunLen(_, _, _)
RunLen(s, p, cs) ==
    IF p > Len(s) \/ p < 1 THEN 0
    ELSE IF s[p] \in cs THEN 1 + RunLen(s, p + 1, cs) ELSE 0

\* the number of consecutive characters outside the set cs in s from position p on
RECURSIVE RunLenNot(_, _, _)
RunLenNot(s, p, cs) ==
    IF p > Len(s) \/ p < 1 THEN 0
    ELSE IF s[p] \notin cs THEN 1 + RunLenNot(s, p + 1, cs) ELSE 0

RECURSIVE Repeat(_, _)
Repeat(c, n) == IF n <= 0 THEN <<>> ELSE <<c>> \o Repeat(c, n - 1)

\* every sequence over the set cs of length at most n
RECURSIVE SeqsUpTo(_, _)
SeqsUpTo(cs, n) ==
    IF n = 0 THEN {<<>>}
    ELSE LET shorter == SeqsUpTo(cs, n - 1)
         IN  shorter \cup {Append(s, c) : s \in {t \in shorter : Len(t) = n - 1}, c \in cs}

\* the outcome of an awaited promise, or of a call that returns or throws
Fulfilled(v) == [ok |-> TRUE, value |-> v]
Rejected(message) == [ok |-> FALSE, value |-> message]

----------------------------------------------------------------------------
(* cleanupMarkdownContent: each replace of the source is one operator.     *)

\* the first position from p on where a match starts, Len(s) + 1 when there is none
NextMatch(s, p, Matches(_)) ==
    LET starts == {q \in p..Len(s) : Matches(q)}
    IN  IF starts = {} THEN Len(s) + 1 ELSE CHOOSE q \in starts : \A r \in starts : q <= r

\* cleaned.replace(/\n{4,}/g, '\n\n\n')
RECURSIVE CollapseNewlines(_, _)
CollapseNewlines(s, p) ==
    LET q == NextMatch(s, p, LAMBDA r : RunLen(s, r, {NL}) >= 4)
    IN  IF q > Len(s) THEN SubSeq(s, p, Len(s))
        ELSE SubSeq(s, p, q - 1) \o <<NL, NL, NL>> \o CollapseNewlines(s, q + RunLen(s, q, {NL}))

\* whether /\n(#{1,6}\s)/ matches at position p, and the length of $1
HeaderStartMatch(s, p) ==
    LET h == RunLen(s, p + 1, {"#"})
    IN  IF /\ s[p] = NL
           /\ h >= 1 /\ h <= 6
           /\ p + h + 1 <= Len(s)
           /\ s[p + h + 1] \in WS
        THEN h + 1
        ELSE 0

\* cleaned.replace(/\n(#{1,6}\s)/g, '\n\n$1')
RECURSIVE SpaceBeforeHeaders(_, _)
SpaceBeforeHeaders(s, p) ==
    LET q == NextMatch(s, p, LAMBDA r : HeaderStartMatch(s, r) > 0)
        g == HeaderStartMatch(s, q)
    IN  IF q > Len(s) THEN SubSeq(s, p, Len(s))
        ELSE SubSeq(s, p, q - 1) \o <<NL, NL>> \o SubSeq(s, q + 1, q + g)
             \o SpaceBeforeHeaders(s, q + g + 1)

\* whether /(#{1,6}\s[^\n]+)\n(?!\n)/ matches at position p, and the length of $1
HeaderLineMatch(s, p) ==
    LET h == RunLen(s, p, {"#"})
        m == RunLenNot(s, p + h + 1, {NL})
        e == p + h + 1 + m   \* where the \n of the pattern must be
    IN  IF /\ h >= 1 /\ h <= 6
           /\ p + h <= Len(s) /\ s[p + h] \in WS
           /\ m >= 1
           /\ e <= Len(s) /\ s[e] = NL
           /\ (e + 1 > Len(s) \/ s[e + 1] # NL)
        THEN h + 1 + m
        ELSE 0

\* cleaned.replace(/(#{1,6}\s[^\n]+)\n(?!\n)/g, '$1\n\n')
RECURSIVE SpaceAfterHeaders(_, _)
SpaceAfterHeaders(s, p) ==
    LET q == NextMatch(s, p, LAMBDA r : HeaderLineMatch(s, r) > 0)
        g == HeaderLineMatch(s, q)
    IN  IF q > Len(s) THEN SubSeq(s, p, Len(s))
        ELSE SubSeq(s, p, q + g - 1) \o <<NL, NL>> \o SpaceAfterHeaders(s, q + g + 1)

\* cleaned.replace(/[ \t]+$/gm, '')
RECURSIVE StripLineEnds(_, _)
StripLineEnds(s, p) ==
    LET q == NextMatch(s, p, LAMBDA r : s[r] \in {" ", TAB})
        k == RunLen(s, q, {" ", TAB})
    IN  IF q > Len(s) THEN SubSeq(s, p, Len(s))
        ELSE SubSeq(s, p, q - 1)
             \o (IF q + k > Len(s) \/ s[q + k] \in {NL, "\r"}
                 THEN <<>> ELSE SubSeq(s, q, q + k - 1))
             \o StripLineEnds(s, q + k)

\* cleaned.replace(/([.!?])([A-Z])/g, '$1 $2')
RECURSIVE SpaceAfterSentence(_, _)
SpaceAfterSentence(s, p) ==
    LET q == NextMatch(s, p, LAMBDA r : s[r] \in {".", "!", "?"} /\ r + 1 <= Len(s) /\ IsUpper(s[r + 1]))
    IN  IF q > Len(s) THEN SubSeq(s, p, Len(s))
        ELSE SubSeq(s, p, q) \o <<" ", s[q + 1]>> \o SpaceAfterSentence(s, q + 2)

\* cleaned.replace(/([,;:])([a-zA-Z])/g, '$1 $2')
RECURSIVE SpaceAfterComma(_, _)
SpaceAfterComma(s, p) ==
    LET q == NextMatch(s, p, LAMBDA r : s[r] \in {",", ";", ":"} /\ r + 1 <= Len(s) /\ IsLetter(s[r + 1]))
    IN  IF q > Len(s) THEN SubSeq(s, p, Len(s))
        ELSE SubSeq(s, p, q) \o <<" ", s[q + 1]>> \o SpaceAfterComma(s, q + 2)

\* if (cleaned && !cleaned.endsWith('\n')) cleaned += '\n'
EnsureFinalNewline(s) ==
    IF s # <<>> /\ ~EndsWith(s, <<NL>>) THEN s \o <<NL>> ELSE s

cleanupMarkdownContent(content) ==
    LET c1 == CollapseNewlines(content, 1)
        c2 == SpaceBeforeHeaders(c1, 1)
        c3 == SpaceAfterHeaders(c2, 1)
        c4 == StripLineEnds(c3, 1)
        c5 == SpaceAfterSentence(c4, 1)
        c6 == SpaceAfterComma(c5, 1)
        c7 == Trim(c6)
    IN  EnsureFinalNewline(c7)

----------------------------------------------------------------------------
(* The word-processing extractor.  A paragraph is                          *)
(*   [style   : the w:val of its pStyle (<<>> when pPr, pStyle or the      *)
(*              value is absent),                                          *)
(*    outline : the w:val of its outlineLvl, -1 when there is none,        *)
(*    runs    : its runs, in document order]                               *)
(* and a run is [text, bold, italic], bold and italic being "absent" when  *)
(* rPr has no such element, "noval" when the element has no w:val, and     *)
(* the w:val otherwise.                                                    *)

S_Heading == <<"H", "e", "a", "d", "i", "n", "g">>
S_heading == <<"h", "e", "a", "d", "i", "n", "g">>
S_Title == <<"T", "i", "t", "l", "e">>
S_Subtitle == <<"S", "u", "b", "t", "i", "t", "l", "e">>
NoReadableContent ==
    <<"N", "o", " ", "r", "e", "a", "d", "a", "b", "l", "e", " ", "c", "o", "n",
      "t", "e", "n", "t", " ", "f", "o", "u", "n", "d", " ", "i", "n", " ", "D",
      "O", "C", "X", " ", "f", "i", "l", "e">>

\* parseInt of a string of decimal digits
RECURSIVE ParseInt(_)
ParseInt(ds) ==
    IF ds = <<>> THEN 0
    ELSE 10 * ParseInt(SubSeq(ds, 1, Len(ds) - 1)) + DigitValue(ds[Len(ds)])

\* String(n) for an integer n >= 0
RECURSIVE ToDigits(_)
ToDigits(n) ==
    IF n < 10 THEN <<Digits[n + 1]>> ELSE ToDigits(n \div 10) \o <<Digits[(n % 10) + 1]>>

\* val.match(/[Hh]eading(\d+)/): the positions where the pattern matches
HeadingMatches(val) ==
    {p \in 1..Len(val) :
        /\ p + 7 <= Len(val)
        /\ SubSeq(val, p, p + 6) \in {S_Heading, S_heading}
        /\ IsDigit(val[p + 7])}

\* headingMatch[1] of the leftmost match: the digits, taken greedily
HeadingDigits(val) ==
    LET p == CHOOSE q \in HeadingMatches(val) : \A r \in HeadingMatches(val) : q <= r
        d == RunLen(val, p + 7, Range(Digits))
    IN  SubSeq(val, p + 7, p + 6 + d)

\* mutant: the outline level is looked at before the paragraph style
getHeadingLevelOutlineFirst(paragraph) ==
    IF paragraph.outline # -1 THEN Min(paragraph.outline + 1, 6)
    ELSE IF paragraph.style # <<>> /\ HeadingMatches(paragraph.style) # {}
    THEN ParseInt(HeadingDigits(paragraph.style))
    ELSE IF paragraph.style # <<>> /\ Includes(paragraph.style, S_Title) THEN 1
    ELSE IF paragraph.style # <<>> /\ Includes(paragraph.style, S_Subtitle) THEN 2
    ELSE 0

getHeadingLevel(paragraph) ==
    IF paragraph.style # <<>> /\ HeadingMatches(paragraph.style) # {}
    THEN ParseInt(HeadingDigits(paragraph.style))
    ELSE IF paragraph.style # <<>> /\ Includes(paragraph.style, S_Title) THEN 1
    ELSE IF paragraph.style # <<>> /\ Includes(paragraph.style, S_Subtitle) THEN 2
    ELSE IF paragraph.outline # -1 THEN Min(paragraph.outline + 1, 6)
    ELSE 0

getSimpleRunFormatting(run) ==
    [bold   |-> run.bold # "absent" /\ (run.bold = "noval" \/ run.bold # "0"),
     italic |-> run.italic # "absent" /\ (run.italic = "noval" \/ run.italic # "0")]

\* the text one run adds to fullText
RunText(run) ==
    LET formatting == getSimpleRunFormatting(run)
    IN  IF run.text = <<>> THEN <<>>
        ELSE IF formatting.bold /\ Trim(run.text) # <<>>
             THEN <<"*", "*">> \o run.text \o <<"*", "*">>
        ELSE IF formatting.italic /\ Trim(run.text) # <<>>
             THEN <<"*">> \o run.text \o <<"*">>
        ELSE run.text

\* the space added after run k when the next sibling's text does not start with one
RunGap(runs, k, fullText) ==
    IF /\ fullText # <<>>
       /\ fullText[Len(fullText)] \notin WS
       /\ k + 1 <= Len(runs)
       /\ runs[k + 1].text # <<>>
       /\ runs[k + 1].text[1] # " "
    THEN <<" ">> ELSE <<>>

\* runs.forEach(...) of extractParagraphText, from run k on, fullText so far
RECURSIVE RunsText(_, _, _)
RunsText(runs, k, fullText) ==
    IF k > Len(runs) THEN fullText
    ELSE LET withRun == fullText \o RunText(runs[k])
         IN  RunsText(runs, k + 1, withRun \o RunGap(runs, k, withRun))

\* fullText.replace(/\s+/g, ' ')
RECURSIVE CollapseWhitespace(_, _)
CollapseWhitespace(s, p) ==
    IF p > Len(s) THEN <<>>
    ELSE IF s[p] \in WS
         THEN <<" ">> \o CollapseWhitespace(s, p + RunLen(s, p, WS))
         ELSE <<s[p]>> \o CollapseWhitespace(s, p + 1)

extractParagraphText(paragraph) ==
    LET headingLevel == getHeadingLevel(paragraph)
        fullText == Trim(CollapseWhitespace(RunsText(paragraph.runs, 1, <<>>), 1))
    IN  IF headingLevel > 0 /\ fullText # <<>>
        THEN Repeat("#", headingLevel) \o <<" ">> \o fullText
        ELSE fullText

\* paragraphs.forEach(...) of readDocxFile: the markdown accumulated
RECURSIVE ParagraphsMarkdown(_)
ParagraphsMarkdown(paragraphs) ==
    IF paragraphs = <<>> THEN <<>>
    ELSE LET paragraphText == extractParagraphText(Head(paragraphs))
         IN  (IF Trim(paragraphText) # <<>> THEN paragraphText \o <<NL, NL>> ELSE <<>>)
             \o ParagraphsMarkdown(Tail(paragraphs))

\* the value readDocxFile returns for a package whose word/document.xml parsed
DocxMarkdown(paragraphs) ==
    LET markdown == Trim(ParagraphsMarkdown(paragraphs))
    IN  IF markdown # <<>> THEN markdown ELSE NoReadableContent

----------------------------------------------------------------------------
(* The CSV converter.                                                      *)

QUOTE == "\""

\* mutant: a doubled quote inside quotes is not an escaped quote
RECURSIVE ParseCsvNoEscape(_, _, _, _, _)
ParseCsvNoEscape(line, p, current, inQuotes, fields) ==
    IF p > Len(line) THEN Append(fields, Trim(current))
    ELSE IF line[p] = QUOTE
         THEN ParseCsvNoEscape(line, p + 1, current, ~inQuotes, fields)
    ELSE IF line[p] = "," /\ ~inQuotes
         THEN ParseCsvNoEscape(line, p + 1, <<>>, inQuotes, Append(fields, Trim(current)))
    ELSE ParseCsvNoEscape(line, p + 1, Append(current, line[p]), inQuotes, fields)

\* the for loop of parseCSVLine from position p on
RECURSIVE ParseCsvFrom(_, _, _, _, _)
ParseCsvFrom(line, p, current, inQuotes, fields) ==
    IF p > Len(line) THEN Append(fields, Trim(current))
    ELSE IF line[p] = QUOTE
         THEN IF inQuotes /\ p + 1 <= Len(line) /\ line[p + 1] = QUOTE
              THEN ParseCsvFrom(line, p + 2, Append(current, QUOTE), inQuotes, fields)
              ELSE ParseCsvFrom(line, p + 1, current, ~inQuotes, fields)
    ELSE IF line[p] = "," /\ ~inQuotes
         THEN ParseCsvFrom(line, p + 1, <<>>, inQuotes, Append(fields, Trim(current)))
    ELSE ParseCsvFrom(line, p + 1, Append(current, line[p]), inQuotes, fields)

parseCSVLine(line) == ParseCsvFrom(line, 1, <<>>, FALSE, <<>>)

\* s.split(sep) for a one-character separator
RECURSIVE Split(_, _)
Split(s, sep) ==
    LET n == RunLenNot(s, 1, {sep})
    IN  IF n = Len(s) THEN <<s>>
        ELSE <<SubSeq(s, 1, n)>> \o Split(SubSeq(s, n + 2, Len(s)), sep)

\* cells.join(sep)
RECURSIVE Join(_, _)
Join(cells, sep) ==
    IF cells = <<>> THEN <<>>
    ELSE IF Len(cells) = 1 THEN cells[1]
    ELSE cells[1] \o sep \o Join(Tail(cells), sep)

\* cell.replace(/\|/g, '\\|')
RECURSIVE EscapePipes(_)
EscapePipes(cell) ==
    IF cell = <<>> THEN <<>>
    ELSE (IF Head(cell) = "|" THEN <<"\\", "|">> ELSE <<Head(cell)>>) \o EscapePipes(Tail(cell))

\* '| ' + cells.join(' | ') + ' |'
TableLine(cells) == <<"|", " ">> \o Join(cells, <<" ", "|", " ">>) \o <<" ", "|">>

S_Column == <<"C", "o", "l", "u", "m", "n">>

\* header.map(cell => cell.trim() || 'Column')
CleanHeader(header) ==
    [c \in 1..Len(header) |-> IF Trim(header[c]) # <<>> THEN Trim(header[c]) ELSE S_Column]

\* lines 787-795: the row padded to the header's width, cut to it, each cell cleaned
\* lines 788-790: while (paddedRow.length < cleanHeader.length) paddedRow.push('')
RECURSIVE PadRow(_, _)
PadRow(row, width) == IF Len(row) < width THEN PadRow(Append(row, <<>>), width) ELSE row

\* mutant: the padded row is not cut to the header's width
CleanRowUncut(row, width) ==
    LET paddedRow == PadRow(row, width)
    IN  [c \in 1..Len(paddedRow) |-> EscapePipes(Trim(paddedRow[c]))]

CleanRow(row, width) ==
    LET paddedRow == PadRow(row, width)
    IN  [c \in 1..width |-> EscapePipes(Trim(paddedRow[c]))]

\* !isNaN(parseFloat(cell)), for cells of digits, letters, spaces and pipes
\* (no sign, decimal point or exponent)
IsNumber(cell) == RunLen(TrimStart(cell), 1, Range(Digits)) > 0

\* parseFloat(cell) for such a cell
ParseFloat(cell) ==
    LET t == TrimStart(cell)
    IN  ParseInt(SubSeq(t, 1, RunLen(t, 1, Range(Digits))))

\* line 874: the header and the ten rows sampled
SampleLimit == 11

\* line 886: the share of numeric values, in percent
NumericPercent == 70

\* rows[rowIndex][colIndex], '' standing for undefined
CellAt(rows, rowIndex, colIndex) ==
    IF colIndex + 1 <= Len(rows[rowIndex + 1]) THEN rows[rowIndex + 1][colIndex + 1] ELSE <<>>

\* lines 874-883: <<numericCount, totalCount>> after the rows from rowIndex on
RECURSIVE SampleCounts(_, _, _, _, _)
SampleCounts(rows, colIndex, rowIndex, numericCount, totalCount) ==
    IF rowIndex >= Min(Len(rows), SampleLimit) THEN <<numericCount, totalCount>>
    ELSE LET cell == CellAt(rows, rowIndex, colIndex)
         IN  IF cell # <<>> /\ Trim(cell) # <<>>
             THEN SampleCounts(rows, colIndex, rowIndex + 1,
                               IF IsNumber(Trim(cell)) THEN numericCount + 1 ELSE numericCount,
                               totalCount + 1)
             ELSE SampleCounts(rows, colIndex, rowIndex + 1, numericCount, totalCount)

\* mutant: the share must exceed 0.7
IsNumericColumnStrict(rows, colIndex) ==
    LET counts == SampleCounts(rows, colIndex, 1, 0, 0)
    IN  counts[2] > 0 /\ 100 * counts[1] > NumericPercent * counts[2]

\* line 886: totalCount > 0 && numericCount / totalCount >= 0.7.  For at most
\* ten samples the quotient differs from 0.7 by more than a rounding error
\* unless it is 7/10, which is the double 0.7.
IsNumericColumn(rows, colIndex) ==
    LET counts == SampleCounts(rows, colIndex, 1, 0, 0)
    IN  counts[2] > 0 /\ 100 * counts[1] >= NumericPercent * counts[2]

\* lines 869-889: the loop over the columns from colIndex on
RECURSIVE NumericColumnsFrom(_, _)
NumericColumnsFrom(rows, colIndex) ==
    IF colIndex >= Len(rows[1]) THEN <<>>
    ELSE (IF IsNumericColumn(rows, colIndex) THEN <<colIndex>> ELSE <<>>)
         \o NumericColumnsFrom(rows, colIndex + 1)

detectNumericColumns(rows) ==
    IF Len(rows) < 2 THEN <<>> ELSE NumericColumnsFrom(rows, 0)

\* lines 807-809: the numbers of the column in every data row
RECURSIVE ColumnValues(_, _, _)
ColumnValues(rows, colIndex, rowIndex) ==
    IF rowIndex >= Len(rows) THEN <<>>
    ELSE (IF IsNumber(CellAt(rows, rowIndex, colIndex))
          THEN <<ParseFloat(CellAt(rows, rowIndex, colIndex))>> ELSE <<>>)
         \o ColumnValues(rows, colIndex, rowIndex + 1)

RECURSIVE Sum(_)
Sum(values) == IF values = <<>> THEN 0 ELSE Head(values) + Sum(Tail(values))

MinOf(values) == CHOOSE v \in Range(values) : \A w \in Range(values) : v <= w
MaxOf(values) == CHOOSE v \in Range(values) : \A w \in Range(values) : v >= w

\* (sum / count).toFixed(2) for sum >= 0: the nearest hundredth, a tie going up
ToFixed2(sum, count) ==
    LET hundredths == (200 * sum + count) \div (2 * count)
    IN  ToDigits(hundredths \div 100)
        \o <<".", Digits[((hundredths % 100) \div 10) + 1], Digits[(hundredths % 10) + 1]>>

\* lines 806-822: the summary block of one numeric column
SummaryBlock(rows, cleanHeader, colIndex) ==
    LET values == ColumnValues(rows, colIndex, 1)
    IN  IF values = <<>> THEN <<>>
        ELSE << [name    |-> cleanHeader[colIndex + 1],
                 count   |-> ToDigits(Len(values)),
                 average |-> ToFixed2(Sum(values), Len(values)),
                 min     |-> ToDigits(MinOf(values)),
                 max     |-> ToDigits(MaxOf(values))] >>

RECURSIVE SummaryBlocks(_, _, _)
SummaryBlocks(rows, cleanHeader, numericColumns) ==
    IF numericColumns = <<>> THEN <<>>
    ELSE SummaryBlock(rows, cleanHeader, Head(numericColumns))
         \o SummaryBlocks(rows, cleanHeader, Tail(numericColumns))

\* convertCsvToMarkdown: the document, as the counts of its preamble, the
\* lines of its table and the blocks of its data summary
convertCsvToMarkdown(csvContent) ==
    LET lines == Split(Trim(csvContent), NL)
        rows == [r \in 1..Len(lines) |-> parseCSVLine(lines[r])]
        cleanHeader == CleanHeader(rows[1])
    IN  [rows    |-> Len(rows),
         columns |-> Len(rows[1]),
         table   |-> <<TableLine(cleanHeader),
                       TableLine([c \in 1..Len(cleanHeader) |-> <<"-", "-", "-">>])>>
                     \o [r \in 1..(Len(rows) - 1) |->
                            TableLine(CleanRow(rows[r + 1], Len(cleanHeader)))],
         summary |-> SummaryBlocks(rows, cleanHeader, detectNumericColumns(rows))]

----------------------------------------------------------------------------
(* The hierarchical (JSON) converter.  A parsed value is                   *)
(*   [kind  : "null", "boolean", "number", "string", "array", "object" or  *)
(*            "function" (a method inherited from a prototype),            *)
(*    text  : String(value) for a boolean, a number, a string, a function, *)
(*    items : the elements of an array, or the own properties of an object *)
(*            as [key, value] in the order of Object.keys]                 *)
(* Numbers are the integers 0, 1, 2, ... written without a sign, fraction  *)
(* or exponent; strings hold no quote, backslash or control character.     *)

JNull == [kind |-> "null", text |-> <<>>, items |-> <<>>]
JBoolean(text) == [kind |-> "boolean", text |-> text, items |-> <<>>]
JNumber(text) == [kind |-> "number", text |-> text, items |-> <<>>]
JString(text) == [kind |-> "string", text |-> text, items |-> <<>>]
JArray(items) == [kind |-> "array", text |-> <<>>, items |-> items]
JObject(entries) == [kind |-> "object", text |-> <<>>, items |-> entries]
JFunction(name) ==
    [kind |-> "function", text |-> <<"f", "u", "n", "c", "t", "i", "o", "n",
            " ">> \o name \o <<"(", ")", " ", "{", " ", "[", "n", "a", "t", "i", "v", "e", " ",
            "c", "o", "d", "e", "]", " ", "}">>, items |-> <<>>]
Entry(key, value) == [key |-> key, value |-> value]

\* typeof value === 'object' && value !== null
IsObjectLike(value) == value.kind \in {"array", "object"}

\* typeof value
TypeOf(value) ==
    CASE value.kind \in {"null", "array", "object"} -> <<"o", "b", "j", "e", "c", "t">>
      [] value.kind = "boolean" -> <<"b", "o", "o", "l", "e", "a", "n">>
      [] value.kind = "number" -> <<"n", "u", "m", "b", "e", "r">>
      [] value.kind = "string" -> <<"s", "t", "r", "i", "n", "g">>
      [] value.kind = "function" -> <<"f", "u", "n", "c", "t", "i", "o", "n">>

\* a key that is an array index: such keys come first in Object.keys, ascending
IsArrayIndex(key) ==
    /\ key # <<>>
    /\ \A k \in 1..Len(key) : IsDigit(key[k])
    /\ (Len(key) > 1 => key[1] # "0")

RECURSIVE IndexValue(_)
IndexValue(key) ==
    IF key = <<>> THEN 0 ELSE 10 * IndexValue(SubSeq(key, 1, Len(key) - 1)) + DigitValue(key[Len(key)])

\* the own properties after obj[key] = value: an existing key keeps its place,
\* a new index key goes among the index keys, any other new key goes last
DefineProperty(entries, key, value) ==
    IF \E k \in 1..Len(entries) : entries[k].key = key
    THEN [k \in 1..Len(entries) |-> IF entries[k].key = key THEN Entry(key, value) ELSE entries[k]]
    ELSE IF IsArrayIndex(key)
    THEN LET before == Cardinality({k \in 1..Len(entries) :
                                      /\ IsArrayIndex(entries[k].key)
                                      /\ IndexValue(entries[k].key) < IndexValue(key)})
         IN  SubSeq(entries, 1, before) \o <<Entry(key, value)>>
             \o SubSeq(entries, before + 1, Len(entries))
    ELSE Append(entries, Entry(key, value))

\* Object.keys(value) for an array or an object
ObjectKeys(value) ==
    IF value.kind = "array" THEN [k \in 1..Len(value.items) |-> ToDigits(k - 1)]
    ELSE [k \in 1..Len(value.items) |-> value.items[k].key]

\* the methods every object inherits from Object.prototype
ObjectPrototypeMethods ==
    { <<"c", "o", "n", "s", "t", "r", "u", "c", "t", "o", "r">>, <<"t", "o", "S", "t", "r", "i",
            "n", "g">>, <<"v", "a", "l", "u", "e", "O", "f">>, <<"h", "a", "s", "O", "w", "n",
            "P", "r", "o", "p", "e", "r", "t", "y">>,
      <<"i", "s", "P", "r", "o", "t", "o", "t", "y", "p", "e", "O", "f">>, <<"p", "r", "o", "p",
              "e", "r", "t", "y", "I", "s", "E", "n", "u", "m", "e", "r", "a", "b", "l",
              "e">>, <<"t", "o", "L", "o", "c", "a", "l", "e", "S", "t", "r", "i", "n", "g">> }

S_length == <<"l", "e", "n", "g", "t", "h">>

\* key in item, for an array or an object
In(key, item) ==
    \/ key \in Range(ObjectKeys(item))
    \/ key \in ObjectPrototypeMethods
    \/ item.kind = "array" /\ key = S_length

\* item[key] when key in item
Get(item, key) ==
    IF key \in Range(ObjectKeys(item))
    THEN LET k == CHOOSE j \in 1..Len(item.items) : ObjectKeys(item)[j] = key
         IN  IF item.kind = "array" THEN item.items[k] ELSE item.items[k].value
    ELSE IF item.kind = "array" /\ key = S_length THEN JNumber(ToDigits(Len(item.items)))
    ELSE IF key = <<"c", "o", "n", "s", "t", "r", "u", "c", "t", "o", "r">>
    THEN JFunction(IF item.kind = "array" THEN <<"A", "r", "r", "a", "y">> ELSE <<"O", "b", "j",
            "e", "c", "t">>)
    ELSE JFunction(key)

\* String(value), which a template literal applies as well
RECURSIVE StringOf(_)
StringOf(value) ==
    CASE value.kind = "null" -> <<"n", "u", "l", "l">>
      [] value.kind = "object" -> <<"[", "o", "b", "j", "e", "c", "t", " ", "O", "b", "j", "e",
              "c", "t", "]">>
      [] value.kind = "array" ->
            Join([k \in 1..Len(value.items) |->
                     IF value.items[k].kind = "null" THEN <<>> ELSE StringOf(value.items[k])],
                 <<",">>)
      [] OTHER -> value.text

\* JSON.stringify(value); with the indent 2 it is the same for a value that is
\* neither an array nor an object
RECURSIVE JSONStringify(_)
JSONStringify(value) ==
    CASE value.kind = "null" -> <<"n", "u", "l", "l">>
      [] value.kind = "string" -> <<"\"">> \o value.text \o <<"\"">>
      [] value.kind = "array" ->
            <<"[">> \o Join([k \in 1..Len(value.items) |-> JSONStringify(value.items[k])], <<",">>)
                \o <<"]">>
      [] value.kind = "object" ->
            <<"{">> \o Join([k \in 1..Len(value.items) |->
                               <<"\"">> \o value.items[k].key \o <<"\"", ":">>
                                   \o JSONStringify(value.items[k].value)],
                            <<",">>)
                \o <<"}">>
      [] OTHER -> value.text

(* JSON.parse, for texts of the grammar above.  The result of a parse step *)
(* is [ok, value, next]: whether a value was read, the value, and the      *)
(* position after it (the position of the failure when ok is FALSE).       *)

JsonWhitespace == {" ", "\t", "\n", "\r"}

SkipWhitespace(s, p) == p + RunLen(s, p, JsonWhitespace)

Parsed(value, next) == [ok |-> TRUE, value |-> value, next |-> next]
Unexpected(p) == [ok |-> FALSE, value |-> JNull, next |-> p]

LiteralAt(s, p, word) == p + Len(word) - 1 <= Len(s) /\ SubSeq(s, p, p + Len(word) - 1) = word

\* a string starting with the quote at p
ParseStringAt(s, p) ==
    LET stops == {q \in (p + 1)..Len(s) : s[q] \in {"\"", "\\", "\n", "\t", "\r"}}
        n == IF stops = {} THEN Len(s) - p
             ELSE (CHOOSE q \in stops : \A r \in stops : q <= r) - p - 1
    IN  IF p + 1 + n <= Len(s) /\ s[p + 1 + n] = "\""
        THEN Parsed(JString(SubSeq(s, p + 1, p + n)), p + n + 2)
        ELSE Unexpected(p + 1 + n)

RECURSIVE ParseValueAt(_, _)
RECURSIVE ParseElementsAt(_, _, _)
RECURSIVE ParseMembersAt(_, _, _)

\* the value that starts at p
ParseValueAt(s, p) ==
    IF p > Len(s) THEN Unexpected(p)
    ELSE IF LiteralAt(s, p, <<"n", "u", "l", "l">>) THEN Parsed(JNull, p + 4)
    ELSE IF LiteralAt(s, p, <<"t", "r", "u", "e">>) THEN Parsed(JBoolean(<<"t", "r", "u",
            "e">>), p + 4)
    ELSE IF LiteralAt(s, p, <<"f", "a", "l", "s", "e">>) THEN Parsed(JBoolean(<<"f", "a", "l",
            "s", "e">>), p + 5)
    ELSE IF s[p] = "0" THEN Parsed(JNumber(<<"0">>), p + 1)
    ELSE IF IsDigit(s[p])
         THEN LET n == RunLen(s, p, Range(Digits))
              IN  Parsed(JNumber(SubSeq(s, p, p + n - 1)), p + n)
    ELSE IF s[p] = "\"" THEN ParseStringAt(s, p)
    ELSE IF s[p] = "["
         THEN LET q == SkipWhitespace(s, p + 1)
              IN  IF q <= Len(s) /\ s[q] = "]" THEN Parsed(JArray(<<>>), q + 1)
                  ELSE ParseElementsAt(s, q, <<>>)
    ELSE IF s[p] = "{"
         THEN LET q == SkipWhitespace(s, p + 1)
              IN  IF q <= Len(s) /\ s[q] = "}" THEN Parsed(JObject(<<>>), q + 1)
                  ELSE ParseMembersAt(s, q, <<>>)
    ELSE Unexpected(p)

\* the elements of an array from p on, after the elements read so far
ParseElementsAt(s, p, items) ==
    LET element == ParseValueAt(s, p)
        q == SkipWhitespace(s, element.next)
    IN  IF ~element.ok THEN element
        ELSE IF q > Len(s) THEN Unexpected(q)
        ELSE IF s[q] = "," THEN ParseElementsAt(s, SkipWhitespace(s, q + 1), Append(items, element.value))
        ELSE IF s[q] = "]" THEN Parsed(JArray(Append(items, element.value)), q + 1)
        ELSE Unexpected(q)

\* the members of an object from p on, after the members read so far
ParseMembersAt(s, p, entries) ==
    IF p > Len(s) \/ s[p] # "\"" THEN Unexpected(p)
    ELSE LET key == ParseStringAt(s, p)
             colon == SkipWhitespace(s, key.next)
         IN  IF ~key.ok THEN key
             ELSE IF colon > Len(s) \/ s[colon] # ":" THEN Unexpected(colon)
             ELSE LET member == ParseValueAt(s, SkipWhitespace(s, colon + 1))
                      q == SkipWhitespace(s, member.next)
                      defined == DefineProperty(entries, key.value.text, member.value)
                  IN  IF ~member.ok THEN member
                      ELSE IF q > Len(s) THEN Unexpected(q)
                      ELSE IF s[q] = "," THEN ParseMembersAt(s, SkipWhitespace(s, q + 1), defined)
                      ELSE IF s[q] = "}" THEN Parsed(JObject(defined), q + 1)
                      ELSE Unexpected(q)

\* JSON.parse(text): the value, or the position at which the SyntaxError is thrown
JSONParse(text) ==
    LET root == ParseValueAt(text, SkipWhitespace(text, 1))
        end == SkipWhitespace(text, root.next)
    IN  IF ~root.ok THEN root
        ELSE IF end <= Len(text) THEN Unexpected(end)
        ELSE root

\* error.message of the SyntaxError; its wording is the engine's, the model
\* keeps the position (0-based) it reports
SyntaxErrorMessage(text, p) ==
    IF p > Len(text) THEN <<"U", "n", "e", "x", "p", "e", "c", "t", "e", "d", " ", "e", "n",
            "d", " ", "o", "f", " ", "J", "S", "O", "N", " ", "i", "n", "p", "u", "t">>
    ELSE <<"U", "n", "e", "x", "p", "e", "c", "t", "e", "d", " ", "t", "o", "k", "e", "n", " ",
            "i", "n", " ", "J", "S", "O", "N", " ", "a", "t", " ", "p", "o", "s", "i", "t", "i",
            "o", "n", " ">> \o ToDigits(p - 1)

RECURSIVE Concat(_)
\* the concatenation of the strings of a sequence
Concat(parts) == IF parts = <<>> THEN <<>> ELSE Head(parts) \o Concat(Tail(parts))

\* lines 1100-1105: the keys of the items that are objects, each once, as the Set keeps them
RECURSIVE AllKeys(_, _)
AllKeys(array, allKeys) ==
    IF array = <<>> THEN allKeys
    ELSE LET fresh == IF IsObjectLike(Head(array)) THEN ObjectKeys(Head(array)) ELSE <<>>
             AddAll[k \in 0..Len(fresh)] ==
                 IF k = 0 THEN allKeys
                 ELSE IF fresh[k] \in Range(AddAll[k - 1]) THEN AddAll[k - 1]
                 ELSE Append(AddAll[k - 1], fresh[k])
         IN  AllKeys(Tail(array), AddAll[Len(fresh)])

\* lines 1115-1126: the cell of one item under one key
TableCell(item, key) ==
    IF IsObjectLike(item) /\ In(key, item)
    THEN LET value == Get(item, key)
         IN  IF value.kind = "null" THEN <<>>
             ELSE IF IsObjectLike(value) THEN EscapePipes(JSONStringify(value))
             ELSE EscapePipes(StringOf(value))
    ELSE <<>>

\* line 1138: above this length a list becomes a count of its items
GroupAbove == 20

\* lines 1139-1143: the Map from String(item) to its count, in insertion order
RECURSIVE ItemCounts(_, _)
ItemCounts(array, counts) ==
    IF array = <<>> THEN counts
    ELSE LET key == StringOf(Head(array))
         IN  ItemCounts(Tail(array),
                IF \E k \in 1..Len(counts) : counts[k].key = key
                THEN [k \in 1..Len(counts) |->
                        IF counts[k].key = key THEN Entry(key, counts[k].value + 1) ELSE counts[k]]
                ELSE Append(counts, Entry(key, 1)))

\* mutant: the entries are left in insertion order
SortByCountUnsorted(counts) == counts

\* .sort(([,a], [,b]) => b - a): by count, descending; the sort is stable
SortByCount(counts) ==
    LET Rank(k) == Cardinality({j \in 1..Len(counts) :
                                  \/ counts[j].value > counts[k].value
                                  \/ counts[j].value = counts[k].value /\ j < k})
    IN  [r \in 1..Len(counts) |-> counts[CHOOSE k \in 1..Len(counts) : Rank(k) = r - 1]]

convertArrayToMarkdownTable(array) ==
    IF array = <<>> THEN <<"*", "*", "E", "m", "p", "t", "y", " ", "a", "r", "r", "a", "y", "*",
            "*", "\n">>
    ELSE IF IsObjectLike(array[1])
    THEN LET keys == AllKeys(array, <<>>)
         IN  IF keys = <<>> THEN <<"*", "*", "A", "r", "r", "a", "y", " ", "o", "f", " ", "e",
                 "m", "p", "t", "y", " ", "o", "b", "j", "e", "c", "t", "s", "*", "*", "\n">>
             ELSE <<"*", "*", "A", "r", "r", "a", "y", " ", "T", "a", "b", "l", "e", "*", "*",
                     " ", "(">> \o ToDigits(Len(array)) \o <<" ", "i", "t", "e", "m", "s", ")",
                     "\n", "\n">>
                  \o TableLine(keys) \o <<NL>>
                  \o TableLine([k \in 1..Len(keys) |-> <<"-", "-", "-">>]) \o <<NL>>
                  \o Concat([r \in 1..Len(array) |->
                               TableLine([k \in 1..Len(keys) |-> TableCell(array[r], keys[k])])
                                   \o <<NL>>])
    ELSE LET markdown == <<"*", "*", "A", "r", "r", "a", "y", " ", "L", "i", "s", "t", "*", "*",
            " ", "(">> \o ToDigits(Len(array)) \o <<" ", "i", "t", "e", "m", "s", ")", "\n", "\n">>
         IN  IF Len(array) > GroupAbove
             THEN LET sorted == SortByCount(ItemCounts(array, <<>>))
                  IN  markdown \o <<"*", "*", "I", "t", "e", "m", " ", "c", "o", "u", "n", "t",
                          "s", ":", "*", "*", "\n">>
                      \o Concat([k \in 1..Len(sorted) |->
                                   <<"-", " ", BACKTICK>> \o sorted[k].key \o <<BACKTICK, ":", " ">>
                                       \o ToDigits(sorted[k].value) \o <<" ", "t", "i", "m",
                                               "e", "s", "\n">>])
             ELSE markdown
                  \o Join([k \in 1..Len(array) |-> ToDigits(k) \o <<".",
                          " ">> \o StringOf(array[k])],
                          <<NL>>)
                  \o <<NL>>

\* line 1163: above this number of properties an object gets a summary table
SummaryAbove == 10
\* lines 1182-1183: the length a preview is cut to
PreviewLength == 50
\* line 1213: above this length a string becomes a code block
LongString == 100
\* line 1193: the deepest heading
MaxHeading == 6

\* mutant: a property holding null has no row in the summary table
SummaryRowUnlessNull(key, value) ==
    IF value.kind = "null" THEN <<>>
    ELSE <<"|", " ">> \o key \o <<" ", "|", " ">> \o TypeOf(value) \o <<" ", "|", " ", "|", NL>>

\* lines 1168-1186: the row of one property in the summary table
SummaryRow(key, value) ==
    LET type == IF value.kind = "array"
                THEN <<"A", "r", "r", "a", "y", "[">> \o ToDigits(Len(value.items)) \o <<"]">>
                ELSE TypeOf(value)
        keys == ObjectKeys(value)
        preview ==
            IF value.kind = "null" THEN <<"n", "u", "l", "l">>
            ELSE IF value.kind = "array" THEN <<"[">> \o ToDigits(Len(value.items)) \o <<" ",
                    "i", "t", "e", "m", "s", "]">>
            ELSE IF value.kind = "object"
            THEN <<"{">> \o Join(SubSeq(keys, 1, Min(3, Len(keys))), <<",", " ">>)
                 \o (IF Len(keys) > 3 THEN <<".", ".", ".">> ELSE <<>>) \o <<"}">>
            ELSE SubSeq(StringOf(value), 1, Min(PreviewLength, Len(StringOf(value))))
                 \o (IF Len(StringOf(value)) > PreviewLength THEN <<".", ".", ".">> ELSE <<>>)
    IN  <<"|", " ">> \o key \o <<" ", "|", " ">> \o type \o <<" ", "|",
            " ">> \o EscapePipes(preview) \o <<" ", "|", "\n">>

RECURSIVE convertObjectToMarkdown(_, _)
convertObjectToMarkdown(obj, level) ==
    LET entries == [k \in 1..Len(ObjectKeys(obj)) |-> Entry(ObjectKeys(obj)[k], Get(obj, ObjectKeys(obj)[k]))]
        summary ==
            IF Len(entries) > SummaryAbove
            THEN <<"#", "#", " ", "P", "r", "o", "p", "e", "r", "t", "y", " ", "S", "u", "m",
                    "m", "a", "r", "y", "\n", "\n">>
                 \o <<"|", " ", "P", "r", "o", "p", "e", "r", "t", "y", " ", "|", " ", "T", "y",
                         "p", "e", " ", "|", " ", "V", "a", "l", "u", "e", " ", "P", "r", "e",
                         "v", "i", "e", "w", " ", "|", "\n">>
                 \o <<"|", " ", "-", "-", "-", " ", "|", " ", "-", "-", "-", " ", "|", " ", "-",
                         "-", "-", " ", "|", "\n">>
                 \o Concat([k \in 1..Len(entries) |-> SummaryRow(entries[k].key, entries[k].value)])
                 \o <<"\n", "#", "#", " ", "D", "e", "t", "a", "i", "l", "e", "d", " ", "C",
                         "o", "n", "t", "e", "n", "t", "\n", "\n">>
            ELSE <<>>
        Detail(key, value) ==
            Repeat("#", Min(level, MaxHeading)) \o <<" ">> \o key \o <<NL, NL>>
            \o (IF value.kind = "null" THEN <<"*", "n", "u", "l", "l", "*", "\n", "\n">>
                ELSE IF value.kind = "array" THEN convertArrayToMarkdownTable(value.items) \o <<NL>>
                ELSE IF value.kind = "object"
                THEN (IF value.items = <<>> THEN <<"*", "E", "m", "p", "t", "y", " ", "o", "b",
                        "j", "e", "c", "t", "*", "\n", "\n">>
                      ELSE convertObjectToMarkdown(value, level + 1))
                ELSE IF value.kind = "string" /\ Len(value.text) > LongString
                THEN <<BACKTICK, BACKTICK, BACKTICK, "\n">> \o value.text \o <<"\n", BACKTICK,
                        BACKTICK, BACKTICK, "\n", "\n">>
                ELSE StringOf(value) \o <<NL, NL>>)
    IN  summary \o Concat([k \in 1..Len(entries) |-> Detail(entries[k].key, entries[k].value)])

\* mutant: the SyntaxError of JSON.parse is not caught
convertJsonToMarkdownThrowing(jsonContent) ==
    LET parsed == JSONParse(jsonContent)
        data == parsed.value
    IN  IF ~parsed.ok THEN Rejected(SyntaxErrorMessage(jsonContent, parsed.next))
        ELSE Fulfilled(<<"#", " ", "J", "S", "O", "N", " ", "D", "a", "t", "a", "\n", "\n">>)

\* convertJsonToMarkdown: what the call completes with; it always returns
convertJsonToMarkdown(jsonContent) ==
    LET parsed == JSONParse(jsonContent)
        data == parsed.value
    IN  IF ~parsed.ok
        THEN Fulfilled(<<"#", " ", "I", "n", "v", "a", "l", "i", "d", " ", "J", "S", "O", "N",
                " ", "C", "o", "n", "t", "e", "n", "t", "\n", "\n", "*", "*", "E", "r", "r",
                "o", "r", ":", "*", "*", " ">>
                       \o SyntaxErrorMessage(jsonContent, parsed.next)
                       \o <<"\n", "\n", "*", "*", "R", "a", "w", " ", "C", "o", "n", "t", "e",
                               "n", "t", ":", "*", "*", "\n", BACKTICK, BACKTICK, BACKTICK, "j",
                               "s", "o", "n", "\n">> \o jsonContent \o <<"\n", BACKTICK,
                               BACKTICK, BACKTICK, "\n">>)
        ELSE Fulfilled(
               <<"#", " ", "J", "S", "O", "N", " ", "D", "a", "t", "a", "\n", "\n">>
               \o (IF data.kind = "array"
                   THEN <<"*", "*", "T", "y", "p", "e", ":", "*", "*", " ", "A", "r", "r", "a",
                           "y", " ", "w", "i", "t", "h",
                           " ">> \o ToDigits(Len(data.items)) \o <<" ", "i", "t", "e", "m", "s",
                           "\n", "\n">>
                        \o convertArrayToMarkdownTable(data.items)
                   ELSE IF data.kind = "object"
                   THEN <<"*", "*", "T", "y", "p", "e", ":", "*", "*", " ", "O", "b", "j", "e",
                           "c", "t", " ", "w", "i", "t", "h",
                           " ">> \o ToDigits(Len(data.items)) \o <<" ", "p", "r", "o", "p", "e",
                           "r", "t", "i", "e", "s", "\n", "\n">>
                        \o convertObjectToMarkdown(data, 2)
                   ELSE <<"*", "*", "T", "y", "p", "e", ":", "*", "*",
                           " ">> \o TypeOf(data) \o <<"\n", "\n">>
                        \o <<"*", "*", "V", "a", "l", "u", "e", ":", "*", "*", "\n", BACKTICK,
                                BACKTICK, BACKTICK, "j", "s", "o", "n",
                                "\n">> \o JSONStringify(data) \o <<"\n", BACKTICK, BACKTICK,
                                BACKTICK, "\n">>))

----------------------------------------------------------------------------
(* The segmented conversion of a hypertext page (processHtmlContent).  A   *)
(* page is what DOMParser and turndown make of the markup:                  *)
(*   [html     : the characters of the markup that are not tags,           *)
(*    elements : the elements of the document in document order, each     *)
(*               [tag, classes, id, dataSlide, markdown], markdown being    *)
(*               turndown of the element's innerHTML,                      *)
(*    body     : turndown of the innerHTML of the body]                    *)
(* Documents are sequences of characters in which every fixed part of a    *)
(* template is one token.                                                  *)

botKeywords ==
    << <<"y", "o", "u", " ", "a", "p", "p", "e", "a", "r", " ", "t", "o", " ", "b", "e", " ",
            "a", " ", "b", "o", "t">>, <<"b", "o", "t", " ", "p", "r", "o", "t", "e", "c", "t",
            "i", "o", "n">>, <<"a", "u", "t", "o", "m", "a", "t", "e", "d", " ", "a", "c", "c",
            "e", "s", "s">>,
       <<"s", "e", "c", "u", "r", "i", "t", "y", " ", "c", "h", "e", "c", "k">>, <<"p", "l",
               "e", "a", "s", "e", " ", "v", "e", "r", "i", "f", "y">>, <<"c", "a", "p", "t",
               "c", "h", "a">>, <<"c", "l", "o", "u", "d", "f", "l", "a", "r", "e">> >>

\* lines 266-271: the first keyword the markup holds, 0 when it holds none
BotKeyword(html) ==
    LET found == {k \in 1..Len(botKeywords) : Includes(ToLowerCase(html), botKeywords[k])}
    IN  IF found = {} THEN 0 ELSE CHOOSE k \in found : \A j \in found : k <= j

Element(tag, classes, id, dataSlide, markdown) ==
    [tag |-> tag, classes |-> classes, id |-> id, dataSlide |-> dataSlide, markdown |-> markdown]

\* element.className
ClassName(element) == Join(element.classes, <<" ">>)

\* lines 296-304: the class selectors, with [data-slide] in the fifth place
slideSelectors ==
    << <<"s", "l", "i", "d", "e">>, <<"p", "a", "g", "e">>, <<"d", "s", "-", "s", "l", "i", "d",
            "e">>, <<"p", "r", "e", "s", "e", "n", "t", "a", "t", "i", "o", "n", "-", "s", "l",
            "i", "d", "e">>, <<"[", "d", "a", "t", "a", "-", "s", "l", "i", "d", "e", "]">>,
       <<"s", "l", "i", "d", "e", "-", "c", "o", "n", "t", "e", "n", "t">>, <<"p", "a", "g",
               "e", "-", "c", "o", "n", "t", "e", "n", "t">> >>

\* whether an element matches the n-th selector
MatchesSelector(element, n) ==
    IF n = 5 THEN element.dataSlide ELSE slideSelectors[n] \in Range(element.classes)

\* doc.querySelectorAll(selector): the matching elements in document order
QuerySelectorAll(elements, Matches(_)) == SelectSeq(elements, Matches)

\* lines 313-318: the div elements whose class or id holds 'slide' or 'page'
IsContentContainer(element) ==
    /\ element.tag = "div"
    /\ \/ Includes(ToLowerCase(ClassName(element)), <<"s", "l", "i", "d", "e">>)
       \/ Includes(ToLowerCase(ClassName(element)), <<"p", "a", "g", "e">>)
       \/ Includes(ToLowerCase(element.id), <<"s", "l", "i", "d", "e">>)
       \/ Includes(ToLowerCase(element.id), <<"p", "a", "g", "e">>)

S_main == <<"m", "a", "i", "n">>

\* lines 306-311: the elements of the first selector that matches any, from the n-th on
RECURSIVE SlidesBySelector(_, _)
SlidesBySelector(elements, n) ==
    IF n > Len(slideSelectors) THEN <<>>
    ELSE LET slides == QuerySelectorAll(elements, LAMBDA e : MatchesSelector(e, n))
         IN  IF Len(slides) > 0 THEN slides ELSE SlidesBySelector(elements, n + 1)

extractSlides(elements) ==
    LET slides == SlidesBySelector(elements, 1)
        contentContainers == QuerySelectorAll(elements, IsContentContainer)
        byTag == QuerySelectorAll(elements, LAMBDA e : e.tag = "main")
        byClass == QuerySelectorAll(elements, LAMBDA e : S_main \in Range(e.classes))
        byId == QuerySelectorAll(elements, LAMBDA e : e.id = S_main)
    IN  IF Len(slides) > 0 THEN slides
        ELSE IF Len(contentContainers) > 0 THEN contentContainers
        ELSE IF byTag # <<>> THEN <<byTag[1]>>
        ELSE IF byClass # <<>> THEN <<byClass[1]>>
        ELSE IF byId # <<>> THEN <<byId[1]>>
        ELSE <<>>

\* n.toString().padStart(2, '0')
PadStart2(n) == IF n < 10 THEN <<"0">> \o ToDigits(n) ELSE ToDigits(n)

MarkdownFile(name, content) == [name |-> name, content |-> content]

\* lines 277-285: one document per slide
SlideFile(slides, index, originalUrl) ==
    MarkdownFile(<<"s", "l", "i", "d", "e", "_">> \o PadStart2(index + 1) \o <<".", "m", "d">>,
                 <<"# Slide ">> \o ToDigits(index + 1) \o <<"\n\n">> \o slides[index + 1].markdown
                     \o <<"\n\n---\n\n*Source: ">> \o originalUrl \o <<"*\n*Slide ">>
                     \o ToDigits(index + 1) \o <<" of ">> \o ToDigits(Len(slides)) \o <<"*">>)

\* lines 287-295: the document of all slides; the date is the clock's
FullPresentation(slides, originalUrl) ==
    MarkdownFile(<<"f", "u", "l", "l", "_", "p", "r", "e", "s", "e", "n", "t", "a", "t", "i",
            "o", "n", ".", "m", "d">>,
                 <<"# Full Presentation\n\n">>
                     \o Join([k \in 1..Len(slides) |->
                                 <<"# Slide ">> \o ToDigits(k) \o <<"\n\n">> \o slides[k].markdown],
                             <<"\n\n---\n\n">>)
                     \o <<"\n\n---\n\n*Source: ">> \o originalUrl
                     \o <<"*\n*Generated on ", "new Date().toISOString()", "*">>)

\* mutant: the document of all slides is not made
extractAndConvertContentSlidesOnly(page, originalUrl) ==
    LET slides == extractSlides(page.elements)
    IN  Fulfilled([k \in 1..Len(slides) |-> SlideFile(slides, k - 1, originalUrl)])

\* extractAndConvertContent: what its promise settles with
extractAndConvertContent(page, originalUrl) ==
    LET slides == extractSlides(page.elements)
    IN  IF BotKeyword(page.html) > 0
        THEN Rejected(<<"DocSend bot protection detected: \"">> \o botKeywords[BotKeyword(page.html)]
                      \o <<"\". Please use manual HTML copy method.">>)
        ELSE IF Len(slides) > 0
        THEN Fulfilled(<<FullPresentation(slides, originalUrl)>>
                       \o [k \in 1..Len(slides) |-> SlideFile(slides, k - 1, originalUrl)])
        ELSE IF Trim(page.body) # <<>>
        THEN Fulfilled(<<MarkdownFile(<<"d", "o", "c", "s", "e", "n", "d", "_", "c", "o", "n",
                "t", "e", "n", "t", ".", "m", "d">>,
                                      <<"# DocSend Content\n\n">> \o page.body
                                          \o <<"\n\n---\n\n*Source: ">> \o originalUrl
                                          \o <<"*\n*Generated on ", "new Date().toISOString()",
                                                  "*">>)>>)
        ELSE Fulfilled(<<>>)

\* processHtmlContent: what its promise settles with
processHtmlContent(page, sourceUrl) ==
    LET converted == extractAndConvertContent(page, sourceUrl)
    IN  IF ~converted.ok THEN converted
        ELSE IF Len(converted.value) = 0 THEN Rejected(<<"No content found in the HTML">>)
        ELSE converted

----------------------------------------------------------------------------
(* The plain-text converter (convertPlainTextToMarkdown): the line         *)
(* classifiers, the rendering of each class, and the rewriting of bare     *)
(* addresses into links.                                                   *)

CR == "\r"

UpperChar(c) == IF IsLower(c) THEN UpperLetters[CHOOSE k \in 1..26 : LowerLetters[k] = c] ELSE c
ToUpperCase(s) == [k \in 1..Len(s) |-> UpperChar(s[k])]

\* \w of a regular expression
IsWordChar(c) == IsLetter(c) \/ IsDigit(c) \/ c = "_"

\* the character at position p, or the empty string past the end
CharAt(s, p) == IF p \in 1..Len(s) THEN s[p] ELSE ""

\* markdown.replace(/\r\n/g, '\n').replace(/\r/g, '\n')
NormalizeLineEndings(s) ==
    LET kept == SelectSeq([k \in 1..Len(s) |-> k],
                          LAMBDA k : ~(s[k] = CR /\ CharAt(s, k + 1) = NL))
    IN  [j \in 1..Len(kept) |-> IF s[kept[j]] = CR THEN NL ELSE s[kept[j]]]

\* /^\d+\.\s+/ : the length of the match at the start of line, 0 when there is none
NumberMarkerLen(line) ==
    LET d == RunLen(line, 1, Range(Digits))
        w == RunLen(line, d + 2, WS)
    IN  IF d >= 1 /\ CharAt(line, d + 1) = "." /\ w >= 1 THEN d + 1 + w ELSE 0

HeaderWords ==
    { <<"C", "h", "a", "p", "t", "e", "r">>, <<"S", "e", "c", "t", "i", "o", "n">>, <<"P", "a",
            "r", "t">>, <<"A", "r", "t", "i", "c", "l", "e">>, <<"I", "n", "t", "r", "o", "d",
            "u", "c", "t", "i", "o", "n">>, <<"C", "o", "n", "c", "l", "u", "s", "i", "o", "n">>,
      <<"S", "u", "m", "m", "a", "r", "y">>, <<"O", "v", "e", "r", "v", "i", "e", "w">>, <<"B",
              "a", "c", "k", "g", "r", "o", "u", "n", "d">> }

\* /^(word|...)\s+/i.test(line)
StartsWithWord(line, words) ==
    \E word \in words :
        /\ StartsWith(ToLowerCase(line), ToLowerCase(word))
        /\ CharAt(line, Len(word) + 1) \in WS

isHeader(line, nextLine) ==
    \/ /\ Len(line) > 3
       /\ line = ToUpperCase(line)
       /\ \A k \in 1..Len(line) :
             IsUpper(line[k]) \/ IsDigit(line[k]) \/ line[k] \in WS \cup {"-", ".", ":"}
    \/ /\ nextLine # <<>>
       /\ \/ \A k \in 1..Len(nextLine) : nextLine[k] = "="
          \/ \A k \in 1..Len(nextLine) : nextLine[k] = "-"
    \/ /\ NumberMarkerLen(line) > 0
       /\ IsUpper(CharAt(line, NumberMarkerLen(line) + 1))
       /\ line = ToUpperCase(line)
    \/ StartsWithWord(line, HeaderWords)

ShortHeader == 30

\* index is the 0-based index of the line in lines
getHeaderLevel(line, index, lines) ==
    IF index = 0 \/ \A k \in 1..index : Trim(lines[k]) = <<>> THEN 1
    ELSE IF Len(line) < ShortHeader /\ line = ToUpperCase(line) THEN 2
    ELSE IF StartsWithWord(line, {<<"C", "h", "a", "p", "t", "e", "r">>, <<"P", "a", "r",
            "t">>}) THEN 1
    ELSE IF StartsWithWord(line, {<<"S", "e", "c", "t", "i", "o", "n">>}) THEN 2
    ELSE 3

RomanLetters == {"i", "v", "x", "l", "c", "d", "m"}

isList(line) ==
    \/ CharAt(line, 1) \in {"-", "*", BULLET} /\ CharAt(line, 2) \in WS
    \/ NumberMarkerLen(line) > 0
    \/ Len(line) >= 1 /\ IsLetter(line[1]) /\ CharAt(line, 2) = "." /\ CharAt(line, 3) \in WS
    \/ LET r == RunLen(ToLowerCase(line), 1, RomanLetters)
       IN  r >= 1 /\ CharAt(line, r + 1) = "." /\ CharAt(line, r + 2) \in WS

convertToMarkdownList(line) ==
    IF CharAt(line, 1) \in {"-", "*"} /\ CharAt(line, 2) \in WS THEN line
    ELSE IF CharAt(line, 1) = BULLET /\ CharAt(line, 2) \in WS
    THEN <<"-", " ">> \o SubSeq(line, 2 + RunLen(line, 2, WS), Len(line))
    ELSE IF NumberMarkerLen(line) > 0 THEN line
    ELSE IF Len(line) >= 1 /\ (IsLetter(line[1]) \/ line[1] \in {BULLET, "-", "*"})
            /\ CharAt(line, 2) = "."
    THEN <<"-", " ">> \o SubSeq(line, 3 + RunLen(line, 3, WS), Len(line))
    ELSE <<"-", " ">> \o line

CodeKeywords ==
    { <<"f", "u", "n", "c", "t", "i", "o", "n">>, <<"v", "a", "r">>, <<"l", "e", "t">>, <<"c",
            "o", "n", "s", "t">>, <<"i", "f">>, <<"e", "l", "s", "e">>, <<"f", "o",
            "r">>, <<"w", "h", "i", "l", "e">>,
      <<"c", "l", "a", "s", "s">>, <<"d", "e", "f">>, <<"i", "m", "p", "o", "r", "t">>, <<"e",
              "x", "p", "o", "r", "t">> }

\* /\b(word|...)\b/.test(line)
HasWord(line, words) ==
    \E word \in words : \E p \in 1..(Len(line) - Len(word) + 1) :
        /\ SubSeq(line, p, p + Len(word) - 1) = word
        /\ p = 1 \/ ~IsWordChar(line[p - 1])
        /\ p + Len(word) > Len(line) \/ ~IsWordChar(line[p + Len(word)])

isCodeLine(line) ==
    \/ StartsWith(line, <<" ", " ", " ", " ">>)
    \/ /\ \E k \in 1..Len(line) : line[k] \in {"{", "}", "(", ")", ";"}
       /\ ~IsUpper(CharAt(Trim(line), 1))
    \/ HasWord(line, CodeKeywords)

isQuote(line) ==
    \/ CharAt(line, 1) = ">" /\ CharAt(line, 2) \in WS
    \/ Len(line) >= 2 /\ line[1] \in {QUOTE, "'"} /\ line[Len(line)] \in {QUOTE, "'"}
    \/ StartsWith(line, <<"Q", "u", "o", "t", "e", ":">>) \/ CharAt(line, 1) \in {QUOTE, "'"}

\* '> ' + line.replace(/^>\s*/, '')
QuoteLine(line) ==
    <<">", " ">> \o (IF CharAt(line, 1) = ">"
                     THEN SubSeq(line, 2 + RunLen(line, 2, WS), Len(line))
                     ELSE line)

\* mutant: the list test is made before the header test
ProcessedLineListFirst(lines, k) ==
    LET originalLine == lines[k]
        line == Trim(originalLine)
        nextLine == IF k + 1 <= Len(lines) THEN Trim(lines[k + 1]) ELSE <<>>
    IN  IF line = <<>> THEN <<>>
        ELSE IF isList(line) THEN convertToMarkdownList(line)
        ELSE IF isHeader(line, nextLine)
        THEN Repeat("#", getHeaderLevel(line, k - 1, lines)) \o <<" ">> \o line
        ELSE IF isCodeLine(originalLine) THEN <<" ", " ", " ", " ">> \o line
        ELSE IF isQuote(line) THEN QuoteLine(line)
        ELSE line

\* one iteration of the loop: what is pushed for the line at position k
ProcessedLine(lines, k) ==
    LET originalLine == lines[k]
        line == Trim(originalLine)
        nextLine == IF k + 1 <= Len(lines) THEN Trim(lines[k + 1]) ELSE <<>>
    IN  IF line = <<>> THEN <<>>
        ELSE IF isHeader(line, nextLine)
        THEN Repeat("#", getHeaderLevel(line, k - 1, lines)) \o <<" ">> \o line
        ELSE IF isList(line) THEN convertToMarkdownList(line)
        ELSE IF isCodeLine(originalLine) THEN <<" ", " ", " ", " ">> \o line
        ELSE IF isQuote(line) THEN QuoteLine(line)
        ELSE line

\* the lines the loop reads
SourceLines(textContent) == Split(NormalizeLineEndings(textContent), NL)

\* processedLines when the loop has ended
ProcessedLines(textContent) ==
    LET lines == SourceLines(textContent)
    IN  [k \in 1..Len(lines) |-> ProcessedLine(lines, k)]

\* https?:\/\/[^\s]+ : the length of the match at position p, 0 when there is none
UrlLen(s, p) ==
    LET scheme == IF SubSeq(s, p, Min(p + 7, Len(s))) = <<"h", "t", "t", "p", "s", ":", "/",
            "/">> THEN 8
                  ELSE IF SubSeq(s, p, Min(p + 6, Len(s))) = <<"h", "t", "t", "p", ":", "/",
                          "/">> THEN 7
                  ELSE 0
        rest == RunLenNot(s, p + scheme, WS)
    IN  IF p >= 1 /\ scheme > 0 /\ rest >= 1 THEN scheme + rest ELSE 0

LocalChars == Range(UpperLetters) \cup Range(LowerLetters) \cup Range(Digits) \cup {".", "_",
        "%", "+", "-"}
DomainChars == Range(UpperLetters) \cup Range(LowerLetters) \cup Range(Digits) \cup {".", "-"}

\* [a-zA-Z0-9._%+-]+@[a-zA-Z0-9.-]+\.[a-zA-Z]{2,} followed by white space or the
\* end: the length of the match at position p, 0 when there is none.  What
\* matches holds no white space and ends before white space, so it is the
\* whole run of other characters at p
EmailLen(s, p) ==
    LET n == RunLenNot(s, p, WS)
        local == RunLen(s, p, LocalChars)
        domain == SubSeq(s, p + local + 1, p + n - 1)
        dots == {k \in 1..Len(domain) : domain[k] = "."}
        dot == CHOOSE k \in dots : \A j \in dots : j <= k
    IN  IF /\ p >= 1 /\ local >= 1 /\ local < n /\ s[p + local] = "@"
           /\ \A k \in 1..Len(domain) : domain[k] \in DomainChars
           /\ dots # {}
           /\ dot >= 2
           /\ Len(domain) - dot >= 2
           /\ \A k \in (dot + 1)..Len(domain) : IsLetter(domain[k])
        THEN n ELSE 0

\* markdown.replace(/(^|[\s])(item)([\s]|$)/g, '$1[item](prefix item)$n'),
\* ItemLen giving the length of the item at a position
RECURSIVE LinkItems(_, _, _, _)
LinkItems(s, p, ItemLen(_, _), prefix) ==
    LET q == NextMatch(s, p, LAMBDA r : \/ r = 1 /\ ItemLen(s, 1) > 0
                                        \/ s[r] \in WS /\ ItemLen(s, r + 1) > 0)
    IN  IF q > Len(s) THEN SubSeq(s, p, Len(s))
        ELSE LET from == IF q = 1 /\ ItemLen(s, 1) > 0 THEN 1 ELSE q + 1
                 after == from + ItemLen(s, from)
                 item == SubSeq(s, from, after - 1)
                 next == Min(after, Len(s)) + 1
             IN  SubSeq(s, p, from - 1) \o <<"[">> \o item \o <<"]", "(">> \o prefix \o item
                    \o <<")">> \o SubSeq(s, after, next - 1) \o LinkItems(s, next, ItemLen, prefix)

convertPlainTextToMarkdown(textContent) ==
    LET joined == Join(ProcessedLines(textContent), <<NL>>)
        collapsed == CollapseNewlines(joined, 1)
        urls == LinkItems(collapsed, 1, UrlLen, <<>>)
        emails == LinkItems(urls, 1, EmailLen, <<"m", "a", "i", "l", "t", "o", ":">>)
    IN  Trim(emails)

----------------------------------------------------------------------------
(* convertXmlToMarkdown.  turndownService.turndown is the library's: what  *)
(* it returns for a markup is written Turndown(markup), the application    *)
(* left standing, and whether it throws is the library's to decide.        *)

\* /<([^>]+)>/ : the length of the match at position p, 0 when there is none
TagLen(s, p) ==
    LET n == RunLenNot(s, p + 1, {">"})
    IN  IF p <= Len(s) /\ s[p] = "<" /\ n >= 1 /\ p + n + 1 <= Len(s) THEN n + 2 ELSE 0

\* mutant: the slash of a closing tag is not written back
TagReplacementNoSlash(tagContent) ==
    IF StartsWith(tagContent, <<"/">>)
    THEN <<"<">> \o SubSeq(tagContent, 2, Len(tagContent)) \o <<">">>
    ELSE <<"<">> \o tagContent \o <<">">>

\* lines 898-904: the callback of the replace
TagReplacement(tagContent) ==
    IF StartsWith(tagContent, <<"/">>)
    THEN <<"<", "/">> \o SubSeq(tagContent, 2, Len(tagContent)) \o <<">">>
    ELSE <<"<">> \o tagContent \o <<">">>

\* xmlContent.replace(/<([^>]+)>/g, callback) from position p on
RECURSIVE ReplaceTags(_, _)
ReplaceTags(s, p) ==
    LET q == NextMatch(s, p, LAMBDA r : TagLen(s, r) > 0)
        n == TagLen(s, q)
    IN  IF q > Len(s) THEN SubSeq(s, p, Len(s))
        ELSE SubSeq(s, p, q - 1) \o TagReplacement(SubSeq(s, q + 1, q + n - 2))
             \o ReplaceTags(s, q + n)

\* what turndownService.turndown returns for a markup
Turndown(markup) == [turndown |-> markup]

XmlTitle == <<"#", " ", "X", "M", "L", " ", "C", "o", "n", "t", "e", "n", "t", "\n", "\n">>

\* line 906: '# XML Content\n\n' + turndownService.turndown(htmlContent)
convertXmlToMarkdown(xmlContent) ==
    [title |-> XmlTitle, body |-> Turndown(ReplaceTags(xmlContent, 1))]

\* line 908: '# XML Content\n\n```xml\n' + xmlContent + '\n```\n'
convertXmlToMarkdownCaught(xmlContent) ==
    XmlTitle \o <<BACKTICK, BACKTICK, BACKTICK, "x", "m", "l", "\n">> \o xmlContent
        \o <<"\n", BACKTICK, BACKTICK, BACKTICK, "\n">>

----------------------------------------------------------------------------
(* processDocSendLink.  A URL is its characters.  What a fetch settles     *)
(* with is the network's to decide: a markup (a page as above) or an error *)
(* whose message is one of those the access method throws.  The templates  *)
(* of the messages are tokens; MessageText spells out the tokens in which  *)
(* the words looked for by line 109 could stand.                           *)

\* line 76: url.includes('docsend.com')
IsDocSendUrl(url) == Includes(url, <<"d", "o", "c", "s", "e", "n", "d", ".", "c", "o", "m">>)

\* lines 81-85
accessMethods == <<"fetchWithCORS", "fetchWithProxy", "fetchWithAllOrigins">>

\* the messages of the errors a method can throw: fetch itself failing, a
\* response that is not ok (lines 156, 169, 192), no contents (line 175)
FetchErrors(method) ==
    CASE method = "fetchWithCORS" ->
            { <<"Failed to fetch">>, <<"HTTP ", "4", "0", "3", ": ", "Forbidden">> }
      [] method = "fetchWithProxy" ->
            { <<"Failed to fetch">>, <<"Proxy request failed: ", "5", "0", "0">>,
              <<"No content received from proxy">> }
      [] method = "fetchWithAllOrigins" ->
            { <<"Failed to fetch">>, <<"Alternative proxy failed: ", "4", "2", "9">> }

\* the characters of a token of a message
TokenText(token) ==
    CASE token = "DocSend bot protection detected: \"" -> <<"D", "o", "c", "S", "e", "n", "d",
            " ", "b", "o", "t", " ", "p", "r", "o", "t", "e", "c", "t", "i", "o", "n", " ", "d",
            "e", "t", "e", "c", "t", "e", "d", ":", " ", "\"">>
      [] token = "\". Please use manual HTML copy method." ->
            <<"\"", ".", " ", "P", "l", "e", "a", "s", "e", " ", "u", "s", "e", " ", "m", "a",
                    "n", "u", "a", "l", " ", "H", "T", "M", "L", " ", "c", "o", "p", "y", " ",
                    "m", "e", "t", "h", "o", "d", ".">>
      [] token = "Failed to fetch" -> <<"F", "a", "i", "l", "e", "d", " ", "t", "o", " ", "f",
              "e", "t", "c", "h">>
      [] token = "HTTP " -> <<"H", "T", "T", "P", " ">>
      [] token = ": " -> <<":", " ">>
      [] token = "Forbidden" -> <<"F", "o", "r", "b", "i", "d", "d", "e", "n">>
      [] token = "Proxy request failed: " -> <<"P", "r", "o", "x", "y", " ", "r", "e", "q", "u",
              "e", "s", "t", " ", "f", "a", "i", "l", "e", "d", ":", " ">>
      [] token = "No content received from proxy" -> <<"N", "o", " ", "c", "o", "n", "t", "e",
              "n", "t", " ", "r", "e", "c", "e", "i", "v", "e", "d", " ", "f", "r", "o", "m",
              " ", "p", "r", "o", "x", "y">>
      [] token = "Alternative proxy failed: " -> <<"A", "l", "t", "e", "r", "n", "a", "t", "i",
              "v", "e", " ", "p", "r", "o", "x", "y", " ", "f", "a", "i", "l", "e", "d", ":", " ">>
      [] token = "No content found in the DocSend presentation" ->
            <<"N", "o", " ", "c", "o", "n", "t", "e", "n", "t", " ", "f", "o", "u", "n", "d",
                    " ", "i", "n", " ", "t", "h", "e", " ", "D", "o", "c", "S", "e", "n", "d",
                    " ", "p", "r", "e", "s", "e", "n", "t", "a", "t", "i", "o", "n">>
      [] OTHER -> <<token>>

MessageText(message) == Concat([k \in 1..Len(message) |-> TokenText(message[k])])

\* lines 109-110
IsBotDetection(errorMessage) ==
    \/ Includes(MessageText(errorMessage), <<"b", "o", "t">>)
    \/ Includes(MessageText(errorMessage), <<"B", "o", "t">>)
    \/ Includes(MessageText(errorMessage), <<"a", "u", "t", "o", "m", "a", "t", "e", "d">>)
    \/ Includes(MessageText(errorMessage), <<"s", "e", "c", "u", "r", "i", "t", "y">>)

\* mutant: the error of the last method is left out of the message
FinalMessageWithoutDetails(errorMessage) ==
    IF IsBotDetection(errorMessage)
    THEN <<"DocSend has detected automated access and blocked the request.", "[lines 112-126]">>
    ELSE <<"Unable to access DocSend content. This is likely due to CORS or security restrictions.",
           "[lines 131-142]">>

\* lines 106-143: the message of the error thrown when every method failed;
\* the advice between its first line and 'Error details:' is one token
FinalMessage(errorMessage) ==
    IF IsBotDetection(errorMessage)
    THEN <<"DocSend has detected automated access and blocked the request.", "[lines 112-126]",
           "Error details: ">> \o errorMessage
    ELSE <<"Unable to access DocSend content. This is likely due to CORS or security restrictions.",
           "[lines 131-142]", "Error details: ">> \o errorMessage

----------------------------------------------------------------------------
(* The table rule of createTurndownService.  A table is the sequence of    *)
(* its rows (tr) in document order, a row the sequence of its cells, a     *)
(* cell [tagName : "TH" or "TD", textContent].                             *)

Cell(tagName, textContent) == [tagName |-> tagName, textContent |-> textContent]

\* '| ' + cells.map(cell => cell.textContent?.trim() || '').join(' | ') + ' |\n'
CellsLine(cells) == TableLine([k \in 1..Len(cells) |-> Trim(cells[k].textContent)]) \o <<NL>>

\* '| ' + headerCells.map(() => '---').join(' | ') + ' |\n'
SeparatorLine(cells) == TableLine([k \in 1..Len(cells) |-> <<"-", "-", "-">>]) \o <<NL>>

\* row.querySelectorAll('td')
DataCells(row) == SelectSeq(row, LAMBDA cell : cell.tagName = "TD")

\* dataRows.forEach(...): the lines of the data rows
RECURSIVE DataRowLines(_)
DataRowLines(dataRows) ==
    IF dataRows = <<>> THEN <<>>
    ELSE (IF DataCells(Head(dataRows)) # <<>> THEN CellsLine(DataCells(Head(dataRows))) ELSE <<>>)
         \o DataRowLines(Tail(dataRows))

\* the replacement of the rule improvedTables
improvedTables(rows) ==
    IF rows = <<>> THEN <<>>
    ELSE LET headerCells == rows[1]
             dataRows == IF \E k \in 1..Len(headerCells) : headerCells[k].tagName = "TH"
                         THEN Tail(rows) ELSE rows
         IN  (IF headerCells # <<>> THEN CellsLine(headerCells) \o SeparatorLine(headerCells) ELSE <<>>)
             \o DataRowLines(dataRows)

----------------------------------------------------------------------------
(* Files.  A File is                                                       *)
(*   [name, type   : its name and MIME type (the platform keeps the type   *)
(*                   in lower case),                                       *)
(*    readable     : FALSE when FileReader fires onerror, or when          *)
(*                   arrayBuffer()/JSZip.loadAsync reject for a package,   *)
(*    documentXml  : whether the package holds word/document.xml,          *)
(*    paragraphs   : the paragraphs of word/document.xml,                  *)
(*    converted    : what the converter selected for the file returns for  *)
(*                   the file's text,                                      *)
(*    throws       : whether that converter throws instead]                *)

S_docx == <<".", "d", "o", "c", "x">>
S_wordprocessingml ==
    <<"w", "o", "r", "d", "p", "r", "o", "c", "e", "s", "s", "i", "n", "g", "m", "l">>
S_md == <<".", "m", "d">>
S_dothtml == <<".", "h", "t", "m", "l">>
S_dothtm == <<".", "h", "t", "m">>
S_dotjson == <<".", "j", "s", "o", "n">>
S_dotcsv == <<".", "c", "s", "v">>
S_dotxml == <<".", "x", "m", "l">>
S_html == <<"h", "t", "m", "l">>
S_json == <<"j", "s", "o", "n">>
S_csv == <<"c", "s", "v">>
S_xml == <<"x", "m", "l">>

T_none == <<>>
T_plain == <<"t", "e", "x", "t", "/", "p", "l", "a", "i", "n">>
T_html == <<"t", "e", "x", "t", "/", "h", "t", "m", "l">>
T_json == <<"a", "p", "p", "l", "i", "c", "a", "t", "i", "o", "n", "/", "j", "s", "o", "n">>
T_csv == <<"t", "e", "x", "t", "/", "c", "s", "v">>
T_xhtml == <<"a", "p", "p", "l", "i", "c", "a", "t", "i", "o", "n", "/", "x", "h", "t", "m", "l", "+", "x", "m", "l">>
T_docx ==
    <<"a", "p", "p", "l", "i", "c", "a", "t", "i", "o", "n", "/", "v", "n", "d", ".",
      "o", "p", "e", "n", "x", "m", "l", "f", "o", "r", "m", "a", "t", "s", "-", "o",
      "f", "f", "i", "c", "e", "d", "o", "c", "u", "m", "e", "n", "t", ".", "w", "o",
      "r", "d", "p", "r", "o", "c", "e", "s", "s", "i", "n", "g", "m", "l", ".", "d",
      "o", "c", "u", "m", "e", "n", "t">>

\* line 349: the test convertFilesToMarkdown makes
IsDocxForBatch(file) ==
    EndsWith(ToLowerCase(file.name), S_docx) \/ Includes(file.type, S_wordprocessingml)

\* lines 502-506 and 671-679: the test readFileContent and convertContentToMarkdown make
IsDocxForReader(file) ==
    EndsWith(ToLowerCase(file.name), S_docx)
        \/ Includes(ToLowerCase(file.type), S_wordprocessingml)

\* file.name.replace(/\.[^/.]+$/, '')
StripExtension(name) ==
    LET dots == {p \in 1..Len(name) : name[p] = "."}
    IN  IF dots = {} THEN name
        ELSE LET last == CHOOSE p \in dots : \A q \in dots : q <= p
             IN  IF last < Len(name) /\ \A q \in (last + 1)..Len(name) : name[q] # "/"
                 THEN SubSeq(name, 1, last - 1)
                 ELSE name

OutputName(file) == StripExtension(file.name) \o S_md

ErrorName(file) == <<"ERROR_">> \o file.name \o S_md

\* mutant: the message of the caught error is not used
ErrorContentUnknown(file, message) ==
    <<"# Conversion Error\n\n**File:** ">> \o file.name \o <<"\n**Error:** ">> \o <<"Unknown error">>
        \o <<"\n\n*This file could not be converted to markdown.*">>

\* the content of the error document; the fixed parts of the template are one token each
ErrorContent(file, message) ==
    <<"# Conversion Error\n\n**File:** ">> \o file.name \o <<"\n**Error:** ">> \o message
        \o <<"\n\n*This file could not be converted to markdown.*">>

Document(name, content, file) ==
    [name |-> name, content |-> content, originalFile |-> file.name]

\* readDocxFile: every failure inside is rethrown with the prefix
readDocxFile(file) ==
    IF ~file.readable
    THEN Rejected(<<"Failed to read DOCX file: ", "package could not be loaded">>)
    ELSE IF ~file.documentXml
    THEN Rejected(<<"Failed to read DOCX file: ", "Could not find document content in DOCX file">>)
    ELSE Fulfilled(DocxMarkdown(file.paragraphs))

\* readFileContent: what its promise settles with
readFileContent(file) ==
    IF IsDocxForReader(file) THEN readDocxFile(file)
    ELSE IF file.readable THEN Fulfilled(file.text)
    ELSE Rejected(<<"Error reading file">>)

\* mutant: the JSON test is made before the HTML test
SourceFormatJsonFirst(file) ==
    LET fileType == ToLowerCase(file.type)
        fileName == ToLowerCase(file.name)
    IN  IF Includes(fileType, S_json) \/ EndsWith(fileName, S_dotjson) THEN "JSON"
        ELSE IF Includes(fileType, S_html) \/ EndsWith(fileName, S_dothtml) \/ EndsWith(fileName, S_dothtm)
        THEN "HTML"
        ELSE IF Includes(fileType, S_csv) \/ EndsWith(fileName, S_dotcsv) THEN "CSV"
        ELSE IF Includes(fileType, S_xml) \/ EndsWith(fileName, S_dotxml) THEN "XML"
        ELSE "Text"

\* lines 684-700: the converter convertContentToMarkdown selects
SourceFormat(file) ==
    LET fileType == ToLowerCase(file.type)
        fileName == ToLowerCase(file.name)
    IN  IF Includes(fileType, S_html) \/ EndsWith(fileName, S_dothtml) \/ EndsWith(fileName, S_dothtm)
        THEN "HTML"
        ELSE IF Includes(fileType, S_json) \/ EndsWith(fileName, S_dotjson) THEN "JSON"
        ELSE IF Includes(fileType, S_csv) \/ EndsWith(fileName, S_dotcsv) THEN "CSV"
        ELSE IF Includes(fileType, S_xml) \/ EndsWith(fileName, S_dotxml) THEN "XML"
        ELSE "Text"

\* lines 686-699: what the selected converter completes with for content.
\* The JSON converter is the one above.  Any other converter is a function of
\* the content, and the content is the file's text, so its value is given
\* with the file; the HTML converter throws when turndown does.
ConverterOutput(content, file) ==
    IF SourceFormat(file) = "JSON" THEN convertJsonToMarkdown(content)
    ELSE IF file.throws /\ SourceFormat(file) = "HTML" THEN Rejected(<<"turndown failed">>)
    ELSE Fulfilled(file.converted)

\* mutant: the converter's value is returned without the cleanup
convertContentToMarkdownRaw(content, file) ==
    IF IsDocxForReader(file)
    THEN Rejected(<<"DOCX file should be processed by readDocxFile, not convertContentToMarkdown">>)
    ELSE ConverterOutput(content, file)

\* convertContentToMarkdown: what its promise settles with
convertContentToMarkdown(content, file) ==
    IF IsDocxForReader(file)
    THEN Rejected(<<"DOCX file should be processed by readDocxFile, not convertContentToMarkdown">>)
    ELSE IF ConverterOutput(content, file).ok
    THEN Fulfilled(cleanupMarkdownContent(ConverterOutput(content, file).value))
    ELSE ConverterOutput(content, file)

----------------------------------------------------------------------------
(* The inputs of the batch.                                                *)

MaxFiles == 2

Para(style, outline, runs) == [style |-> style, outline |-> outline, runs |-> runs]
Run(text, bold, italic) == [text |-> text, bold |-> bold, italic |-> italic]

TextFile(name, type, converted, throws) ==
    [name |-> name, type |-> type, readable |-> TRUE, documentXml |-> FALSE,
     paragraphs |-> <<>>, text |-> <<"t">>, converted |-> converted, throws |-> throws]

\* a file that holds JSON text
JsonFile(name, type, text) ==
    [name |-> name, type |-> type, readable |-> TRUE, documentXml |-> FALSE,
     paragraphs |-> <<>>, text |-> text, converted |-> <<>>, throws |-> FALSE]

DocxFile(name, type, documentXml, paragraphs) ==
    [name |-> name, type |-> type, readable |-> TRUE, documentXml |-> documentXml,
     paragraphs |-> paragraphs, text |-> <<>>, converted |-> <<>>, throws |-> FALSE]

Unreadable(file) == [file EXCEPT !.readable = FALSE]

BatchParagraphs ==
    { <<>>,
      <<Para(<<>>, -1, <<Run(<<" ">>, "absent", "absent")>>)>>,
      <<Para(<<"H", "e", "a", "d", "i", "n", "g", "2">>, -1,
             <<Run(<<"I", "n", "t", "r", "o">>, "absent", "absent")>>),
        Para(<<>>, -1, <<Run(<<"a">>, "noval", "absent"), Run(<<"b">>, "absent", "absent")>>)>> }

ReadableFiles ==
    { TextFile(<<"a", ".", "t", "x", "t">>, T_plain, <<"a", NL, "#", " ", "b", NL, "c">>, FALSE),
      JsonFile(<<"a", ".", "j", "s", "o", "n">>, T_json,
               <<"{", "\"", "a", "\"", ":", "1", ",", "\"", "b", "\"", ":", "\"", "x", ".", "y", "\"", "}">>),
      JsonFile(<<"m", ".", "J", "S", "O", "N">>, T_none,
               <<"{", "\"", "a", "\"", ":", "1", ",", NL, NL, NL, NL, "\"", "b", "\"", ":">>),
      TextFile(<<"b", ".", "c", "s", "v">>, T_csv, <<>>, FALSE),
      TextFile(<<"b">>, T_none, <<" ", "a", ".", "B", " ", NL, NL>>, FALSE),
      TextFile(<<"c", ".", "h", "t", "m", "l">>, T_html, <<"h", NL, NL, NL, NL, NL, "i">>, FALSE),
      TextFile(<<"c", ".", "h", "t", "m">>, T_none, <<>>, TRUE),
      TextFile(<<"d", ".", "x", "m", "l">>, T_none, <<"#", " ", "X", NL>>, FALSE),
      TextFile(<<"a", ".", "t", "x", "t">>, T_plain, <<"d">>, FALSE),
      TextFile(<<"e", ".", "j", "s", "o", "n">>, T_html, <<"e">>, FALSE),
      TextFile(<<"f", ".", "c", "s", "v">>, T_xhtml, <<"f">>, FALSE) }
    \cup { DocxFile(<<"a", ".", "d", "o", "c", "x">>, T_docx, TRUE, ps) : ps \in BatchParagraphs }
    \cup { DocxFile(<<"n", ".", "D", "O", "C", "X">>, T_none, FALSE, <<>>),
           DocxFile(<<"w">>, T_docx, TRUE,
                    <<Para(<<>>, 0, <<Run(<<"x">>, "absent", "1")>>)>>) }

BatchFiles ==
    ReadableFiles
    \cup { Unreadable(f) : f \in { g \in ReadableFiles :
                                     g.name \in { <<"a", ".", "t", "x", "t">>, <<"w">> } } }

BatchInputs == SeqsUpTo(BatchFiles, MaxFiles)

----------------------------------------------------------------------------
(* convertFilesToMarkdown as a state machine.  The function runs without   *)
(* interruption between two awaits, so one action is the code from one     *)
(* await to the next.                                                      *)

Event(ev, idx) == [ev |-> ev, idx |-> idx, message |-> <<>>]
Caught(idx, message) == [ev |-> "catch", idx |-> idx, message |-> message]

CleanupIdle ==
    /\ clInput = <<>>
    /\ clOnce = <<>>
    /\ clTwice = <<>>
    /\ clStage = "idle"

DocxIdle ==
    /\ dxParagraph = Para(<<>>, -1, <<>>)
    /\ dxText = <<>>
    /\ dxStage = "idle"

CsvIdle ==
    /\ csvInput = <<>>
    /\ csvFields = <<>>
    /\ csvOutput = <<>>
    /\ csvStage = "idle"

JsonIdle ==
    /\ jsInput = <<>>
    /\ jsOutput = <<>>
    /\ jsStage = "idle"

TextIdle ==
    /\ txInput = <<>>
    /\ txOutput = <<>>
    /\ txStage = "idle"

HtmlIdle ==
    /\ htInput = <<>>
    /\ htOutput = <<>>
    /\ htStage = "idle"

TableIdle ==
    /\ tbRows = <<>>
    /\ tbMarkdown = <<>>
    /\ tbStage = "idle"

XmlIdle ==
    /\ xmInput = <<>>
    /\ xmOutput = <<>>
    /\ xmStage = "idle"

DocsendIdle ==
    /\ dsUrl = <<>>
    /\ dsMethod = 0
    /\ dsHtml = <<>>
    /\ dsLastError = <<>>
    /\ dsAttempts = <<>>
    /\ dsOutcomes = <<>>
    /\ dsResult = Rejected(<<"pending">>)
    /\ dsStage = "idle"

AppIdle ==
    /\ apSelected = 0
    /\ apLoading = FALSE
    /\ apError = <<>>
    /\ apProgress = <<>>
    /\ apMarkdownFiles = 0
    /\ apShown = FALSE
    /\ apBatches = <<>>
    /\ apStage = "idle"

Init ==
    /\ files \in BatchInputs
    /\ i = 0
    /\ pc = "loop"
    /\ pending = Fulfilled(<<>>)
    /\ markdownFiles = <<>>
    /\ inFlight = {}
    /\ events = <<>>
    /\ result = Rejected(<<"pending">>)
    /\ CleanupIdle
    /\ DocxIdle
    /\ CsvIdle
    /\ JsonIdle
    /\ TextIdle
    /\ HtmlIdle
    /\ TableIdle /\ XmlIdle /\ DocsendIdle /\ AppIdle

\* lines 505 and 528: what readFileContent calls before it returns its promise
ReaderCalled(file) == IF IsDocxForReader(file) THEN "readDocxFile" ELSE "readAsText"

\* lines 684-700: the converter convertContentToMarkdown calls, if it calls one
ConverterCalled(file, idx) ==
    IF IsDocxForReader(file) THEN <<>>
    ELSE <<[ev |-> "converter", idx |-> idx, message |-> <<SourceFormat(file)>>]>>

\* markdownFiles.push of the try block, then the next iteration
PushDocument(content) ==
    /\ markdownFiles' = Append(markdownFiles, Document(OutputName(files[i + 1]), content, files[i + 1]))
    /\ events' = Append(events, Event("append", i))
    /\ inFlight' = inFlight \ {i}
    /\ i' = i + 1
    /\ pc' = "loop"

\* mutant: the catch block only logs, and the loop goes on
PushErrorSkipped(message) ==
    /\ markdownFiles' = markdownFiles
    /\ events' = events \o <<Caught(i, message)>>
    /\ inFlight' = inFlight \ {i}
    /\ i' = i + 1
    /\ pc' = "loop"

\* the catch block, then the next iteration
PushError(message) ==
    /\ markdownFiles' = Append(markdownFiles,
                               Document(ErrorName(files[i + 1]),
                                        ErrorContent(files[i + 1], message), files[i + 1]))
    /\ events' = events \o <<Caught(i, message), Event("append", i)>>
    /\ inFlight' = inFlight \ {i}
    /\ i' = i + 1
    /\ pc' = "loop"

\* lines 340-352: the loop test, onProgress?.(i), and the call of readFileContent
BeginFile ==
    /\ pc = "loop"
    /\ i < Len(files)
    /\ events' = events \o <<Event("progress", i), Event("read", i),
                               Event(ReaderCalled(files[i + 1]), i)>>
    /\ inFlight' = inFlight \cup {i}
    /\ pc' = "read"
    /\ UNCHANGED <<files, i, pending, markdownFiles, result, harnessVars>>

\* line 350: a package was read; its markdown is pushed as it is
ReadDocxDone ==
    /\ pc = "read"
    /\ IsDocxForBatch(files[i + 1])
    /\ readFileContent(files[i + 1]).ok
    /\ PushDocument(readFileContent(files[i + 1]).value)
    /\ UNCHANGED <<files, pending, result, harnessVars>>

\* mutant: the conversion is started and not awaited; the loop goes on
ReadTextNotAwaited ==
    /\ pc = "read"
    /\ ~IsDocxForBatch(files[i + 1])
    /\ readFileContent(files[i + 1]).ok
    /\ pending' = convertContentToMarkdown(readFileContent(files[i + 1]).value, files[i + 1])
    /\ events' = events \o <<Event("convert", i)>> \o ConverterCalled(files[i + 1], i)
    /\ i' = i + 1
    /\ pc' = "loop"
    /\ UNCHANGED <<files, markdownFiles, inFlight, result, harnessVars>>

\* lines 352-353: the text was read; convertContentToMarkdown is called and awaited
ReadTextDone ==
    /\ pc = "read"
    /\ ~IsDocxForBatch(files[i + 1])
    /\ readFileContent(files[i + 1]).ok
    /\ pending' = convertContentToMarkdown(readFileContent(files[i + 1]).value, files[i + 1])
    /\ events' = events \o <<Event("convert", i)>> \o ConverterCalled(files[i + 1], i)
    /\ pc' = "convert"
    /\ UNCHANGED <<files, i, markdownFiles, inFlight, result, harnessVars>>

\* lines 361-370: readFileContent rejected
ReadFailed ==
    /\ pc = "read"
    /\ ~readFileContent(files[i + 1]).ok
    /\ PushError(readFileContent(files[i + 1]).value)
    /\ UNCHANGED <<files, pending, result, harnessVars>>

\* lines 353-360: the conversion fulfilled
ConvertDone ==
    /\ pc = "convert"
    /\ pending.ok
    /\ PushDocument(pending.value)
    /\ UNCHANGED <<files, pending, result, harnessVars>>

\* lines 361-370: the conversion rejected
ConvertFailed ==
    /\ pc = "convert"
    /\ ~pending.ok
    /\ PushError(pending.value)
    /\ UNCHANGED <<files, pending, result, harnessVars>>

\* mutant: the batch returns without the last onProgress call
FinishWithoutProgress ==
    /\ pc = "loop"
    /\ i >= Len(files)
    /\ events' = events \o <<Event("resolve", Len(files))>>
    /\ result' = Fulfilled(markdownFiles)
    /\ pc' = "done"
    /\ UNCHANGED <<files, i, pending, markdownFiles, inFlight, harnessVars>>

\* lines 373-374: the loop is over; onProgress?.(files.length) and the return
Finish ==
    /\ pc = "loop"
    /\ i >= Len(files)
    /\ events' = events \o <<Event("progress", Len(files)), Event("resolve", Len(files))>>
    /\ result' = Fulfilled(markdownFiles)
    /\ pc' = "done"
    /\ UNCHANGED <<files, i, pending, markdownFiles, inFlight, harnessVars>>

Next ==
    \/ BeginFile
    \/ ReadDocxDone
    \/ ReadTextDone
    \/ ReadFailed
    \/ ConvertDone
    \/ ConvertFailed
    \/ Finish

Spec == Init /\ [][Next]_vars

----------------------------------------------------------------------------
(* cleanupMarkdownContent applied once and then again to its own value.    *)

MaxCleanupLen == 4

CleanupAlphabet == {"a", "B", "#", " ", NL, "."}

FiveNewlines == <<"a", NL, NL, NL, NL, NL, "b">>

CleanupInputs == SeqsUpTo(CleanupAlphabet, MaxCleanupLen) \cup {FiveNewlines}

BatchIdle ==
    /\ files = <<>>
    /\ i = 0
    /\ pc = "idle"
    /\ pending = Fulfilled(<<>>)
    /\ markdownFiles = <<>>
    /\ inFlight = {}
    /\ events = <<>>
    /\ result = Rejected(<<"pending">>)

InitCleanup ==
    /\ BatchIdle
    /\ DocxIdle
    /\ CsvIdle
    /\ JsonIdle
    /\ TextIdle
    /\ HtmlIdle
    /\ clInput \in CleanupInputs
    /\ clOnce = <<>>
    /\ clTwice = <<>>
    /\ clStage = "input"
    /\ TableIdle /\ XmlIdle /\ DocsendIdle /\ AppIdle

CleanupOnce ==
    /\ clStage = "input"
    /\ clOnce' = cleanupMarkdownContent(clInput)
    /\ clStage' = "once"
    /\ UNCHANGED <<batchVars, tableVars, xmlVars, docsendVars, appVars, jsonVars, textVars,
                   htmlVars, docxVars, csvVars, clInput, clTwice>>

CleanupTwice ==
    /\ clStage = "once"
    /\ clTwice' = cleanupMarkdownContent(clOnce)
    /\ clStage' = "twice"
    /\ UNCHANGED <<batchVars, tableVars, xmlVars, docsendVars, appVars, jsonVars, textVars,
                   htmlVars, docxVars, csvVars, clInput, clOnce>>

NextCleanup == CleanupOnce \/ CleanupTwice

SpecCleanup == InitCleanup /\ [][NextCleanup]_vars

\* C6: cleanupMarkdownContent is idempotent on its own value, and five
\* newlines between two plain lines become three and stay three.
C6_CleanupIdempotent ==
    /\ clStage = "twice" => clTwice = clOnce
    /\ clStage \in {"once", "twice"} /\ clInput = FiveNewlines =>
          clOnce = <<"a", NL, NL, NL, "b", NL>>

----------------------------------------------------------------------------
(* extractParagraphText applied to one paragraph element.                  *)

MaxHeadingStyle == 7
MaxOutlineLevel == 6

ParagraphStyles ==
    { <<>>, S_Title, S_Subtitle, <<"N", "o", "r", "m", "a", "l">> }
    \cup { S_Heading \o ToDigits(n) : n \in 0..MaxHeadingStyle }
    \cup { S_heading \o ToDigits(n) : n \in 1..2 }

ParagraphRuns ==
    { <<>>,
      <<Run(<<"I", "n", "t", "r", "o">>, "absent", "absent")>>,
      <<Run(<<" ">>, "noval", "absent")>>,
      <<Run(<<"b">>, "noval", "absent")>>,
      <<Run(<<"i">>, "absent", "1")>>,
      <<Run(<<"x">>, "1", "noval")>>,
      <<Run(<<"o">>, "0", "0")>>,
      <<Run(<<"a">>, "noval", "noval"), Run(<<"b", " ">>, "0", "1"), Run(<<"c">>, "absent", "0")>> }

DocxParagraphs ==
    { Para(style, outline, runs) :
        style \in ParagraphStyles, outline \in -1..MaxOutlineLevel, runs \in ParagraphRuns }

InitDocx ==
    /\ BatchIdle
    /\ CleanupIdle
    /\ CsvIdle
    /\ JsonIdle
    /\ TextIdle
    /\ HtmlIdle
    /\ dxParagraph \in DocxParagraphs
    /\ dxText = <<>>
    /\ dxStage = "input"
    /\ TableIdle /\ XmlIdle /\ DocsendIdle /\ AppIdle

ExtractParagraph ==
    /\ dxStage = "input"
    /\ dxText' = extractParagraphText(dxParagraph)
    /\ dxStage' = "done"
    /\ UNCHANGED <<batchVars, tableVars, xmlVars, docsendVars, appVars, jsonVars, textVars,
                   htmlVars, cleanupVars, csvVars, dxParagraph>>

NextDocx == ExtractParagraph

SpecDocx == InitDocx /\ [][NextDocx]_vars

\* the number of leading '#' of a heading line: a run of '#' followed by a space
HeadingMarkers(line) ==
    LET h == RunLen(line, 1, {"#"})
    IN  IF h >= 1 /\ h + 1 <= Len(line) /\ line[h + 1] = " " THEN h ELSE 0

\* C7: every heading line a converter emits starts with between 1 and 6 '#',
\* here for the word-processing extractor, whatever the paragraph style.
C7_HeadingLevelAtMostSix ==
    dxStage = "done" => HeadingMarkers(dxText) <= 6

----------------------------------------------------------------------------
(* parseCSVLine applied to one line.                                       *)

MaxLineLen == 5

CsvAlphabet == {"a", ",", QUOTE, " "}

\* a,"b,c","d""e"
QuotedExample ==
    <<"a", ",", QUOTE, "b", ",", "c", QUOTE, ",", QUOTE, "d", QUOTE, QUOTE, "e", QUOTE>>

CsvLines == SeqsUpTo(CsvAlphabet, MaxLineLen) \cup {QuotedExample}

InitCsvLine ==
    /\ BatchIdle
    /\ CleanupIdle
    /\ DocxIdle
    /\ JsonIdle
    /\ TextIdle
    /\ HtmlIdle
    /\ csvInput \in CsvLines
    /\ csvFields = <<>>
    /\ csvOutput = <<>>
    /\ csvStage = "line"
    /\ TableIdle /\ XmlIdle /\ DocsendIdle /\ AppIdle

ParseLine ==
    /\ csvStage = "line"
    /\ csvFields' = parseCSVLine(csvInput)
    /\ csvStage' = "parsed"
    /\ UNCHANGED <<batchVars, tableVars, xmlVars, docsendVars, appVars, jsonVars, textVars,
                   htmlVars, cleanupVars, docxVars, csvInput, csvOutput>>

NextCsvLine == ParseLine

SpecCsvLine == InitCsvLine /\ [][NextCsvLine]_vars

\* The rules of the claim, character by character: what each character of
\* the line is, given the in-quotes flag before it.
RECURSIVE CsvRoles(_, _, _)
CsvRoles(line, p, inQuotes) ==
    IF p > Len(line) THEN <<>>
    ELSE IF line[p] = QUOTE /\ inQuotes /\ p < Len(line) /\ line[p + 1] = QUOTE
         THEN <<"literal", "dropped">> \o CsvRoles(line, p + 2, inQuotes)
    ELSE IF line[p] = QUOTE THEN <<"toggle">> \o CsvRoles(line, p + 1, ~inQuotes)
    ELSE IF line[p] = "," /\ ~inQuotes THEN <<"separator">> \o CsvRoles(line, p + 1, inQuotes)
    ELSE <<"text">> \o CsvRoles(line, p + 1, inQuotes)

\* the characters of line[from..to] that belong to a field
RECURSIVE KeptChars(_, _, _, _)
KeptChars(line, roles, from, to) ==
    IF from > to THEN <<>>
    ELSE (IF roles[from] \in {"text", "literal"} THEN <<line[from]>> ELSE <<>>)
         \o KeptChars(line, roles, from + 1, to)

\* the fields the rules give: the kept characters between separators, trimmed
ExpectedFields(line) ==
    LET roles == CsvRoles(line, 1, FALSE)
        seps == {p \in 1..Len(line) : roles[p] = "separator"}
        bounds == {0} \cup seps \cup {Len(line) + 1}
        StartOf(k) == CHOOSE b \in bounds : Cardinality({c \in bounds : c < b}) = k - 1
    IN  [k \in 1..(Cardinality(seps) + 1) |->
            Trim(KeptChars(line, roles, StartOf(k) + 1, StartOf(k + 1) - 1))]

\* C8: parseCSVLine gives the fields of the rules: a quote toggles the flag
\* and is dropped, a doubled quote inside quotes is one literal quote, a
\* comma outside quotes ends a field, every field is trimmed, and there is
\* one field more than commas outside quotes; the quoted example gives
\* a / b,c / d"e.
C8_FieldsFollowTheRules ==
    csvStage = "parsed" =>
       /\ csvFields = ExpectedFields(csvInput)
       /\ Len(csvFields) =
             1 + Cardinality({p \in 1..Len(csvInput) :
                                CsvRoles(csvInput, 1, FALSE)[p] = "separator"})
       /\ \A k \in 1..Len(csvFields) : csvFields[k] = Trim(csvFields[k])
       /\ csvInput = QuotedExample =>
             csvFields = << <<"a">>, <<"b", ",", "c">>, <<"d", QUOTE, "e">> >>

C8_Witness ==
    /\ csvStage = "parsed"
    /\ csvInput = QuotedExample
    /\ Len(csvFields) = 3
    /\ csvFields[3] = <<"d", QUOTE, "e">>

----------------------------------------------------------------------------
(* convertCsvToMarkdown applied to the content of one file.                *)

MaxNumberRows == 8
MaxTextRows == 4
MaxEmptyRows == 1
MaxSmallRows == 2

\* the first cell of the k-th numeric row
NumberCell(k) == ToDigits(k * k)

\* a data line: the first cell, and the second when the row has one
DataLine(first, second) == IF second = <<"-">> THEN first ELSE first \o <<",">> \o second

\* files with the header h,k whose first column holds a numbers, b texts and
\* c empty cells, the numbers first or last
ColumnContents ==
    { Join(<< <<"h", ",", "k">> >>
           \o (IF numbersFirst THEN [k \in 1..a |-> DataLine(NumberCell(k), second)] ELSE <<>>)
           \o [k \in 1..b |-> DataLine(<<"x">>, second)]
           \o [k \in 1..c |-> DataLine(<<>>, second)]
           \o (IF numbersFirst THEN <<>> ELSE [k \in 1..a |-> DataLine(NumberCell(k), second)]),
           <<NL>>) :
        a \in 0..MaxNumberRows, b \in 0..MaxTextRows, c \in 0..MaxEmptyRows,
        numbersFirst \in BOOLEAN, second \in { <<"-">>, <<"3">>, <<"y">> } }

SmallLines ==
    { <<>>, <<"1">>, <<"a", "|", "b", ",", "2">>, <<"1", ",", "2", ",", "3">>,
      <<" ", "x", " ", ",">> }

SmallContents ==
    { Join(<<header>> \o body, <<NL>>) :
        header \in { <<"h", ",", "k">>, <<"p", "|", "q">>, <<>> },
        body \in SeqsUpTo(SmallLines, MaxSmallRows) }

CsvContents == ColumnContents \cup SmallContents

InitCsv ==
    /\ BatchIdle
    /\ CleanupIdle
    /\ DocxIdle
    /\ JsonIdle
    /\ TextIdle
    /\ HtmlIdle
    /\ csvInput \in CsvContents
    /\ csvFields = <<>>
    /\ csvOutput = <<>>
    /\ csvStage = "content"
    /\ TableIdle /\ XmlIdle /\ DocsendIdle /\ AppIdle

ConvertCsv ==
    /\ csvStage = "content"
    /\ csvOutput' = convertCsvToMarkdown(csvInput)
    /\ csvStage' = "converted"
    /\ UNCHANGED <<batchVars, tableVars, xmlVars, docsendVars, appVars, jsonVars, textVars,
                   htmlVars, cleanupVars, docxVars, csvInput, csvFields>>

NextCsv == ConvertCsv

SpecCsv == InitCsv /\ [][NextCsv]_vars

\* the rows of the input: its lines, each split into fields
InputRows(content) ==
    LET lines == Split(Trim(content), NL)
    IN  [r \in 1..Len(lines) |-> parseCSVLine(lines[r])]

\* the positions of the pipes of a table line that no backslash escapes
UnescapedPipes(line) ==
    {p \in 1..Len(line) : line[p] = "|" /\ (p = 1 \/ line[p - 1] # "\\")}

\* the cells of a table line: what stands between two unescaped pipes
CellsOf(line) ==
    LET pipes == UnescapedPipes(line)
        PipeAt(k) == CHOOSE p \in pipes : Cardinality({q \in pipes : q < p}) = k - 1
    IN  [k \in 1..(Cardinality(pipes) - 1) |->
            Trim(SubSeq(line, PipeAt(k) + 1, PipeAt(k + 1) - 1))]

\* C9: row 0 is the header, and every following input row is one table row
\* with as many cells as the header has fields: the row's fields in order,
\* empty cells added when it has fewer, the surplus dropped when it has more.
C9_RowsMatchHeaderWidth ==
    csvStage = "converted" =>
       LET rows == InputRows(csvInput)
           width == Len(rows[1])
       IN  /\ Len(csvOutput.table) = Len(rows) + 1
           /\ \A r \in 2..Len(rows) :
                 LET cells == CellsOf(csvOutput.table[r + 1])
                 IN  /\ Len(cells) = width
                     /\ \A c \in 1..width :
                           cells[c] = IF c <= Len(rows[r]) THEN EscapePipes(rows[r][c]) ELSE <<>>

C9_Witness ==
    /\ csvStage = "converted"
    /\ LET rows == InputRows(csvInput)
       IN  /\ Len(rows) = 3
           /\ Len(rows[1]) = 2
           /\ Len(rows[2]) = 1
           /\ Len(rows[3]) = 3
           /\ Len(CellsOf(csvOutput.table[4])) = 2

\* the data rows sampled: the first ten, or all when there are fewer
SampledRows(rows) == 2..Min(Len(rows), 11)

\* the rows among rs whose cell in column c is not empty
NonEmptyAt(rows, rs, c) == {r \in rs : c <= Len(rows[r]) /\ rows[r][c] # <<>>}

\* the rows among rs whose cell in column c parses as a number
NumbersAt(rows, rs, c) == {r \in NonEmptyAt(rows, rs, c) : IsDigit(rows[r][c][1])}

\* the columns the claim flags numeric
FlaggedColumns(rows) ==
    {c \in 1..Len(rows[1]) :
        /\ NonEmptyAt(rows, SampledRows(rows), c) # {}
        /\ 10 * Cardinality(NumbersAt(rows, SampledRows(rows), c))
              >= 7 * Cardinality(NonEmptyAt(rows, SampledRows(rows), c))}

\* the value of a string of digits with two decimals, in hundredths
Hundredths(text) ==
    100 * ParseInt(SubSeq(text, 1, Len(text) - 3)) + ParseInt(SubSeq(text, Len(text) - 1, Len(text)))

\* C10: a column is flagged numeric exactly when, among its non-empty values
\* in the first ten data rows, there is one and at least 70% are numbers; the
\* rows after the tenth do not count; and after the table there is one
\* summary block per flagged column, in column order, with the count, the
\* average to two decimals, the minimum and the maximum of its numbers.
C10_NumericColumnsAndSummary ==
    csvStage = "converted" =>
       LET rows == InputRows(csvInput)
           flagged == FlaggedColumns(rows)
           ColumnOf(k) == CHOOSE c \in flagged : Cardinality({d \in flagged : d < c}) = k - 1
       IN  /\ Len(csvOutput.summary) = Cardinality(flagged)
           /\ \A k \in 1..Len(csvOutput.summary) :
                 LET block == csvOutput.summary[k]
                     c == ColumnOf(k)
                     numbers == NumbersAt(rows, 2..Len(rows), c)
                     total == Sum([r \in 1..Len(rows) |->
                                     IF r \in numbers THEN ParseInt(rows[r][c]) ELSE 0])
                 IN  /\ block.name = (IF rows[1][c] = <<>> THEN S_Column ELSE rows[1][c])
                     /\ ParseInt(block.count) = Cardinality(numbers)
                     /\ block.average[Len(block.average) - 2] = "."
                     /\ 2 * (100 * total - Hundredths(block.average) * Cardinality(numbers))
                           <= Cardinality(numbers)
                     /\ 2 * (Hundredths(block.average) * Cardinality(numbers) - 100 * total)
                           <= Cardinality(numbers)
                     /\ \E r \in numbers : ParseInt(rows[r][c]) = ParseInt(block.min)
                     /\ \E r \in numbers : ParseInt(rows[r][c]) = ParseInt(block.max)
                     /\ \A r \in numbers :
                           /\ ParseInt(block.min) <= ParseInt(rows[r][c])
                           /\ ParseInt(rows[r][c]) <= ParseInt(block.max)

\* seven numbers and three texts in the ten rows sampled, a text in the
\* eleventh: both columns are flagged, the first before the second
C10_Witness ==
    /\ csvStage = "converted"
    /\ LET rows == InputRows(csvInput)
       IN  /\ Len(rows) = 12
           /\ Cardinality(NumbersAt(rows, SampledRows(rows), 1)) = 7
           /\ Cardinality(NonEmptyAt(rows, SampledRows(rows), 1)) = 10
           /\ Cardinality(NumbersAt(rows, 2..Len(rows), 1)) = 7
           /\ Len(csvOutput.summary) = 2
           /\ csvOutput.summary[1].name = <<"h">>
           /\ csvOutput.summary[1].average = <<"2", "0", ".", "0", "0">>
           /\ csvOutput.summary[2].name = <<"k">>

----------------------------------------------------------------------------
(* convertJsonToMarkdown applied to the text of one file.                  *)

MaxElements == 3
MaxProperties == 12
MaxDepth == 7
MaxListItems == 21

S_toString == <<"t", "o", "S", "t", "r", "i", "n", "g">>

\* the objects that are elements of the arrays given
ElementObjects ==
    { JObject(<<>>),
      JObject(<<Entry(<<"a">>, JNumber(<<"1">>)), Entry(<<"b">>, JString(<<"x">>))>>),
      JObject(<<Entry(<<"a">>, JNumber(<<"2">>)), Entry(<<"c">>, JNull)>>),
      JObject(<<Entry(<<"c">>, JString(<<"u", "|", "v">>)),
                Entry(<<"a">>, JObject(<<Entry(<<"b">>, JArray(<<JNumber(<<"1">>), JNull>>))>>))>>),
      JObject(<<Entry(S_toString, JString(<<"x">>))>>),
      JObject(<<Entry(<<"p", "|", "q">>, JBoolean(<<"t", "r", "u", "e">>))>>) }

\* values that are not objects
OtherElements == { JNumber(<<"7">>), JString(<<"x">>), JNull, JArray(<<JNumber(<<"5">>)>>) }

\* an object with n properties a, b, c, ...: numbers, strings, a null, an
\* array, an object, and strings of 51 and of 101 characters
WideObject(n) ==
    JObject([k \in 1..n |->
        Entry(<<LowerLetters[k]>>,
              CASE k % 6 = 1 -> JNumber(ToDigits(k))
                [] k % 6 = 2 -> JString(Repeat("y", IF k = 2 THEN 51 ELSE IF k = 8 THEN 101 ELSE k))
                [] k % 6 = 3 -> JNull
                [] k % 6 = 4 -> JArray(<<JNumber(<<"1">>), JString(<<"u", "|", "v">>)>>)
                [] k % 6 = 5 -> JObject([j \in 1..k |-> Entry(<<LowerLetters[j]>>, JNull)])
                [] OTHER -> JBoolean(<<"f", "a", "l", "s", "e">>))])

\* an object nested d deep
RECURSIVE DeepObject(_)
DeepObject(d) ==
    IF d = 0 THEN JObject(<<>>) ELSE JObject(<<Entry(<<"a">>, DeepObject(d - 1))>>)

JsonRoots ==
    { JArray(items) : items \in SeqsUpTo(ElementObjects, MaxElements) }
    \cup { JArray(<<first, second>>) : first \in ElementObjects \cup OtherElements,
                                        second \in OtherElements }
    \cup { JArray(<<first, second>>) : first \in OtherElements, second \in ElementObjects }
    \cup { JArray([k \in 1..n |-> JNumber(ToDigits(k % 3))]) : n \in 19..MaxListItems }
    \cup { JArray([k \in 1..n |-> IF k = 1 THEN JNull
                                   ELSE IF k % 4 = 0 THEN JString(<<"x">>)
                                   ELSE JNumber(ToDigits(k % 2))]) : n \in 19..MaxListItems }
    \cup { WideObject(n) : n \in 0..MaxProperties }
    \cup { JObject(<<Entry(<<"w">>, WideObject(n))>>) : n \in 9..MaxProperties }
    \cup { DeepObject(d) : d \in 1..MaxDepth }
    \cup OtherElements

\* texts written by hand: white space, a repeated key, an index key after a name
WrittenTexts ==
    { <<" ", "[", " ", "{", "\"", "a", "\"", " ", ":", " ", "1", " ", ",", " ", "\"", "b", "\"",
            ":", "2", "}", " ", ",", "\n", "{", "\"", "a", "\"", ":", "3", ",", "\"", "c", "\"",
            ":", "n", "u", "l", "l", "}", " ", ",", " ", "{", "\"", "a", "\"", ":", "t", "r",
            "u", "e", "}", " ", "]", " ">>,
      <<"{", "\"", "b", "\"", ":", "1", ",", "\"", "2", "\"", ":", "2", ",", "\"", "b", "\"",
              ":", "3", ",", "\"", "1", "0", "\"", ":", "4", ",", "\"", "0", "1", "\"", ":",
              "5", "}">>,
      <<"[", "{", "\"", "b", "\"", ":", "1", ",", "\"", "a", "\"", ":", "2", "}", ",", "{",
              "\"", "0", "\"", ":", "3", "}", "]">> }

\* every text cut short, and texts with a character too many
BrokenTexts ==
    UNION { {SubSeq(text, 1, n) : n \in 0..(Len(text) - 1)} : text \in WrittenTexts }
    \cup { <<"{", "\"", "a", "\"", ":", "1", ",", "}">>, <<"[", "1", " ", "2", "]">>, <<"{",
            "a", ":", "1", "}">>, <<"[", "1", "]", "]">>, <<"n", "u", "l">>, <<"0",
            "1">>, <<"{", "\"", "a", "\"", " ", "1", "}">> }

JsonTexts == { JSONStringify(root) : root \in JsonRoots } \cup WrittenTexts \cup BrokenTexts

InitJson ==
    /\ BatchIdle
    /\ CleanupIdle
    /\ DocxIdle
    /\ CsvIdle
    /\ TextIdle
    /\ HtmlIdle
    /\ jsInput \in JsonTexts
    /\ jsOutput = <<>>
    /\ jsStage = "content"
    /\ TableIdle /\ XmlIdle /\ DocsendIdle /\ AppIdle

ConvertJson ==
    /\ jsStage = "content"
    /\ jsOutput' = convertJsonToMarkdown(jsInput)
    /\ jsStage' = "converted"
    /\ UNCHANGED <<batchVars, tableVars, xmlVars, docsendVars, appVars, cleanupVars, docxVars,
                   csvVars, textVars, htmlVars, jsInput>>

NextJson == ConvertJson

SpecJson == InitJson /\ [][NextJson]_vars

\* the lines of a document: what stands between two line ends
LinesOf(markdown) ==
    LET ends == {p \in 1..Len(markdown) : markdown[p] = NL} \cup {Len(markdown) + 1}
        EndOf(k) == CHOOSE p \in ends : Cardinality({q \in ends : q < p}) = k - 1
    IN  [k \in 1..Cardinality(ends) |->
            SubSeq(markdown, IF k = 1 THEN 1 ELSE EndOf(k - 1) + 1, EndOf(k) - 1)]

\* the lines of a document that are lines of a table
TableLines(markdown) == SelectSeq(LinesOf(markdown), LAMBDA line : StartsWith(line, <<"|">>))

\* the keys of the elements of an array, each once, a key before another when
\* it is seen first: in an earlier element, or earlier in the same element
KeysFirstSeen(array) ==
    LET all == UNION {Range(ObjectKeys(array[r])) : r \in 1..Len(array)}
        ElementOf(key) == CHOOSE r \in 1..Len(array) :
                              /\ key \in Range(ObjectKeys(array[r]))
                              /\ \A q \in 1..(r - 1) : key \notin Range(ObjectKeys(array[q]))
        PlaceOf(key) == CHOOSE k \in 1..Len(array[ElementOf(key)].items) :
                              ObjectKeys(array[ElementOf(key)])[k] = key
        Before(x, y) == \/ ElementOf(x) < ElementOf(y)
                        \/ ElementOf(x) = ElementOf(y) /\ PlaceOf(x) < PlaceOf(y)
    IN  [n \in 1..Cardinality(all) |->
            CHOOSE key \in all : Cardinality({other \in all : Before(other, key)}) = n - 1]

\* the array given, when the text is an array of objects and of nothing else
IsArrayOfObjects(text) ==
    /\ JSONParse(text).ok
    /\ JSONParse(text).value.kind = "array"
    /\ JSONParse(text).value.items # <<>>
    /\ \A r \in 1..Len(JSONParse(text).value.items) : JSONParse(text).value.items[r].kind = "object"

\* C11: an array of objects becomes a table: the header holds the keys of all
\* elements, each once, in the order they are first seen; then one row per
\* element, in order, with an empty cell where the element has no such key
\* or holds null.
C11_TableOfFirstSeenKeys ==
    (jsStage = "converted" /\ IsArrayOfObjects(jsInput)) =>
       LET array == JSONParse(jsInput).value.items
           keys == KeysFirstSeen(array)
           lines == TableLines(jsOutput.value)
       IN  /\ Len(lines) = Len(array) + 2
           /\ CellsOf(lines[1]) = keys
           /\ \A r \in 1..Len(array) :
                 /\ Len(CellsOf(lines[r + 2])) = Len(keys)
                 /\ \A k \in 1..Len(keys) :
                       (\/ keys[k] \notin Range(ObjectKeys(array[r]))
                        \/ Get(array[r], keys[k]).kind = "null")
                           => CellsOf(lines[r + 2])[k] = <<>>

\* the lines of a document that are headings
HeadingLines(markdown) == SelectSeq(LinesOf(markdown), LAMBDA line : StartsWith(line, <<"#">>))

S_PropertySummary == <<"#", "#", " ", "P", "r", "o", "p", "e", "r", "t", "y", " ", "S", "u",
        "m", "m", "a", "r", "y">>
S_DetailedContent == <<"#", "#", " ", "D", "e", "t", "a", "i", "l", "e", "d", " ", "C", "o",
        "n", "t", "e", "n", "t">>

\* the places of a line in a sequence of lines
PlacesOf(lines, line) == {k \in 1..Len(lines) : lines[k] = line}

\* the root given, when the text is an object
IsRootObject(text) == JSONParse(text).ok /\ JSONParse(text).value.kind = "object"

\* for a root with more than ten properties: the first headings are the two
\* of the summary, with a table of one row per property between them
SummaryComesFirst(root, markdown) ==
    LET lines == LinesOf(markdown)
        headings == HeadingLines(markdown)
        summary == CHOOSE k \in PlacesOf(lines, S_PropertySummary) :
                       \A j \in PlacesOf(lines, S_PropertySummary) : k <= j
        detailed == CHOOSE k \in PlacesOf(lines, S_DetailedContent) :
                       \A j \in PlacesOf(lines, S_DetailedContent) : k <= j
    IN  /\ Len(headings) >= 3 + Len(root.items)
        /\ headings[2] = S_PropertySummary
        /\ headings[3] = S_DetailedContent
        /\ headings[4] = <<"#", "#", " ">> \o root.items[1].key
        /\ summary < detailed
        /\ Cardinality({k \in (summary + 1)..(detailed - 1) : StartsWith(lines[k], <<"|">>)})
              = Len(root.items) + 2

\* C12 as stated: a root object with more than 10 properties gets the
\* Property Summary heading, a table of one row per property and the
\* Detailed Content heading, in this order and before the heading of any
\* property; with 10 properties or fewer the document holds neither heading.
C12_SummaryOnlyAboveTen ==
    (jsStage = "converted" /\ IsRootObject(jsInput)) =>
       LET root == JSONParse(jsInput).value
           lines == LinesOf(jsOutput.value)
       IN  IF Len(root.items) > 10
           THEN SummaryComesFirst(root, jsOutput.value)
           ELSE PlacesOf(lines, S_PropertySummary) = {} /\ PlacesOf(lines, S_DetailedContent) = {}

\* the objects with more than ten properties among an object and the objects
\* nested in it as values of properties
RECURSIVE WideObjects(_)
WideObjects(object) ==
    (IF Len(object.items) > 10 THEN 1 ELSE 0)
    + Sum([k \in 1..Len(object.items) |->
             IF object.items[k].value.kind = "object" THEN WideObjects(object.items[k].value) ELSE 0])

\* C12, amended: the same for a root with more than 10 properties; and the
\* document holds each of the two headings once for every object with more
\* than 10 properties, the root or an object nested in it, so none when
\* there is no such object.
C12_SummaryPerWideObject ==
    (jsStage = "converted" /\ IsRootObject(jsInput)) =>
       LET root == JSONParse(jsInput).value
           lines == LinesOf(jsOutput.value)
       IN  /\ Len(root.items) > 10 => SummaryComesFirst(root, jsOutput.value)
           /\ Cardinality(PlacesOf(lines, S_PropertySummary)) = WideObjects(root)
           /\ Cardinality(PlacesOf(lines, S_DetailedContent)) = WideObjects(root)

\* a root with 12 properties, one of them an object of 11
C12_Witness ==
    /\ jsStage = "converted"
    /\ IsRootObject(jsInput)
    /\ Len(JSONParse(jsInput).value.items) = 12
    /\ WideObjects(JSONParse(jsInput).value) = 2
    /\ HeadingLines(jsOutput.value)[2] = S_PropertySummary
    /\ HeadingLines(jsOutput.value)[3] = S_DetailedContent

----------------------------------------------------------------------------
(* Properties of the batch.                                                *)

\* what makes a file fail, read off the file alone
FileFails(f) ==
    \/ ~f.readable
    \/ /\ EndsWith(ToLowerCase(f.name), S_docx) \/ Includes(f.type, S_wordprocessingml)
       /\ ~f.documentXml
    \/ /\ ~(EndsWith(ToLowerCase(f.name), S_docx) \/ Includes(f.type, S_wordprocessingml))
       /\ \/ Includes(f.type, S_html)
          \/ EndsWith(ToLowerCase(f.name), S_dothtml)
          \/ EndsWith(ToLowerCase(f.name), S_dothtm)
       /\ f.throws

IsErrorDocument(d) == StartsWith(d.name, <<"ERROR_">>)

\* the positions of the event in the history
Positions(ev, idx) == {p \in 1..Len(events) : events[p].ev = ev /\ events[p].idx = idx}

\* the arguments onProgress was called with, in call order
RECURSIVE ProgressArgs(_)
ProgressArgs(es) ==
    IF es = <<>> THEN <<>>
    ELSE (IF Head(es).ev = "progress" THEN <<Head(es).idx>> ELSE <<>>) \o ProgressArgs(Tail(es))

\* C1: called with N files the batch resolves to exactly N documents, and the
\* document at position k is the outcome of input file k: its converted
\* document when the file converts, its error document when it fails.
C1_OneDocumentPerFile ==
    /\ pc = "loop" => Len(markdownFiles) = i
    /\ pc = "done" =>
          /\ result.ok
          /\ Len(result.value) = Len(files)
          /\ \A k \in 1..Len(files) :
                /\ result.value[k].originalFile = files[k].name
                /\ IsErrorDocument(result.value[k]) <=> FileFails(files[k])

C1_Witness ==
    /\ pc = "done"
    /\ Len(files) = 2
    /\ Len(result.value) = 2
    /\ IsErrorDocument(result.value[1])
    /\ ~IsErrorDocument(result.value[2])

\* C2: a failing read or conversion never rejects the batch: the error is
\* caught for that file alone, its output is named ERROR_<file name>.md and
\* holds the file's name and the error's message, and the files after it are
\* still converted.
C2_FailureBecomesErrorDocument ==
    /\ result.ok \/ pc # "done"
    /\ \A p \in 1..Len(events) :
          events[p].ev = "catch" /\ events[p].idx < Len(markdownFiles) =>
             LET k == events[p].idx + 1
                 d == markdownFiles[k]
             IN  /\ d.name = <<"ERROR_">> \o files[k].name \o <<".", "m", "d">>
                 /\ Includes(d.content, files[k].name)
                 /\ events[p].message # <<>>
                 /\ Includes(d.content, events[p].message)
    /\ pc = "done" =>
          \A k \in 1..Len(files) :
             /\ FileFails(files[k]) => Positions("catch", k - 1) # {}
             /\ ~FileFails(files[k]) =>
                   /\ Len(result.value) >= k
                   /\ ~IsErrorDocument(result.value[k])
                   /\ Positions("catch", k - 1) = {}

C2_Witness ==
    /\ pc = "done"
    /\ Len(files) = 2
    /\ FileFails(files[1])
    /\ ~FileFails(files[2])
    /\ Positions("catch", 0) # {}
    /\ ~IsErrorDocument(result.value[2])

\* C3: onProgress is called with 0, 1, ..., N in this order, N + 1 times in
\* all; the call with i < N comes before file i is read and after file i-1 was
\* appended, and the call with N comes after the last append and before the
\* batch resolves.
C3_ProgressOrder ==
    /\ \A k \in 1..Len(ProgressArgs(events)) : ProgressArgs(events)[k] = k - 1
    /\ pc = "done" => Len(ProgressArgs(events)) = Len(files) + 1
    /\ \A p \in 1..Len(events) :
          /\ events[p].ev = "read" =>
                \E q \in 1..(p - 1) : events[q] = Event("progress", events[p].idx)
          /\ events[p].ev = "progress" /\ events[p].idx > 0 =>
                \E q \in 1..(p - 1) : events[q] = Event("append", events[p].idx - 1)
          /\ events[p].ev = "progress" /\ events[p].idx < Len(files) =>
                \A q \in 1..(p - 1) : ~(events[q].ev \in {"read", "convert", "append"}
                                          /\ events[q].idx = events[p].idx)
          /\ events[p].ev = "resolve" =>
                \E q \in 1..(p - 1) : events[q] = Event("progress", Len(files))

C3_Witness ==
    /\ pc = "done"
    /\ Len(files) = 2
    /\ ProgressArgs(events) = <<0, 1, 2>>

\* C4: files are processed one at a time: at most one file is being read or
\* converted, and while file k is in flight exactly the k files before it
\* have been appended.
C4_OneFileAtATime ==
    /\ Cardinality(inFlight) <= 1
    /\ \A k \in inFlight : Len(markdownFiles) = k /\ i = k
    /\ \A p \in 1..Len(events) :
          events[p].ev = "read" /\ events[p].idx > 0 =>
             \E q \in 1..(p - 1) : events[q] = Event("append", events[p].idx - 1)

C4_Witness ==
    /\ inFlight = {1}
    /\ pc = "convert"
    /\ Len(markdownFiles) = 1

\* C5 as claimed: every successfully converted document of the batch,
\* whatever its format, is a value of cleanupMarkdownContent: empty, or
\* trimmed and ended by exactly one newline.
IsCleaned(content) == content = <<>> \/ content = Trim(content) \o <<NL>>

IsMalformedJsonFile(file) ==
    /\ ~IsDocxForBatch(file)
    /\ ~IsDocxForReader(file)
    /\ file.readable
    /\ SourceFormat(file) = "JSON"
    /\ ~JSONParse(file.text).ok

\* C13: malformed JSON is never a thrown failure nor an ERROR_ document:
\* convertJsonToMarkdown returns a document with the heading 'Invalid JSON
\* Content', the message of the parse error and the whole raw input in a
\* fenced block, and the batch names the file's document <base name>.md.
C13_MalformedJsonIsADocument ==
    \A k \in 1..Len(files) :
       IsMalformedJsonFile(files[k]) =>
          LET text == files[k].text
              returned == convertJsonToMarkdown(text)
          IN  /\ returned.ok
              /\ StartsWith(returned.value, <<"#", " ", "I", "n", "v", "a", "l", "i", "d", " ",
                      "J", "S", "O", "N", " ", "C", "o", "n", "t", "e", "n", "t", "\n">>)
              /\ Includes(returned.value,
                          <<"*", "*", "E", "r", "r", "o", "r", ":", "*", "*",
                                  " ">> \o SyntaxErrorMessage(text, JSONParse(text).next) \o <<NL>>)
              /\ EndsWith(returned.value, <<"\n", BACKTICK, BACKTICK, BACKTICK, "j", "s", "o",
                      "n", "\n">> \o text \o <<"\n", BACKTICK, BACKTICK, BACKTICK, "\n">>)
              /\ \A e \in 1..Len(events) : ~(events[e].ev = "catch" /\ events[e].idx = k - 1)
              /\ k <= Len(markdownFiles) =>
                    /\ markdownFiles[k].name = StripExtension(files[k].name) \o <<".", "m", "d">>
                    /\ markdownFiles[k].name[1] # "ERROR_"

\* the document of a malformed JSON file has been appended
C13_Witness ==
    \E k \in 1..Len(markdownFiles) :
        /\ IsMalformedJsonFile(files[k])
        /\ markdownFiles[k].name = <<"m", ".", "m", "d">>
        /\ StartsWith(markdownFiles[k].content, <<"#", " ", "I", "n", "v", "a", "l", "i", "d",
                " ", "J", "S", "O", "N", " ", "C", "o", "n", "t", "e", "n", "t">>)

\* whether the file is declared a word-processing file, by name or by type
DeclaredDocx(file) ==
    EndsWith(ToLowerCase(file.name), <<".", "d", "o", "c", "x">>) \/ Includes(file.type, <<"w",
            "o", "r", "d", "p", "r", "o", "c", "e", "s", "s", "i", "n", "g", "m", "l">>)

\* whether the type or the end of the name declares one of the formats
Declares(file, typeWord, extensions) ==
    \/ Includes(file.type, typeWord)
    \/ \E e \in extensions : EndsWith(ToLowerCase(file.name), e)

\* the first of HTML, JSON, CSV, XML the file declares, Text when it declares none
DeclaredFormat(file) ==
    CASE Declares(file, <<"h", "t", "m", "l">>, {<<".", "h", "t", "m", "l">>, <<".", "h", "t",
            "m">>}) -> "HTML"
      [] ~Declares(file, <<"h", "t", "m", "l">>, {<<".", "h", "t", "m", "l">>, <<".", "h", "t",
              "m">>})
           /\ Declares(file, <<"j", "s", "o", "n">>, {<<".", "j", "s", "o", "n">>}) -> "JSON"
      [] ~Declares(file, <<"h", "t", "m", "l">>, {<<".", "h", "t", "m", "l">>, <<".", "h", "t",
              "m">>})
           /\ ~Declares(file, <<"j", "s", "o", "n">>, {<<".", "j", "s", "o", "n">>})
           /\ Declares(file, <<"c", "s", "v">>, {<<".", "c", "s", "v">>}) -> "CSV"
      [] ~Declares(file, <<"h", "t", "m", "l">>, {<<".", "h", "t", "m", "l">>, <<".", "h", "t",
              "m">>})
           /\ ~Declares(file, <<"j", "s", "o", "n">>, {<<".", "j", "s", "o", "n">>})
           /\ ~Declares(file, <<"c", "s", "v">>, {<<".", "c", "s", "v">>})
           /\ Declares(file, <<"x", "m", "l">>, {<<".", "x", "m", "l">>}) -> "XML"
      [] OTHER -> "Text"

\* the events of the history that are calls of a reader or of a converter for file idx
CallsFor(idx) ==
    SelectSeq(events, LAMBDA e : e.idx = idx /\ e.ev \in {"readDocxFile", "readAsText",
            "convert", "converter"})

\* C15: the converter is chosen by the file's declared format alone.  A
\* word-processing file is read by the DOCX extractor and reaches neither
\* readAsText nor convertContentToMarkdown; any other file is read as text
\* and handed to one converter, the first of HTML, JSON, CSV, XML it
\* declares, or the plain-text one; two files of the same name and type get
\* the same calls whatever they hold.
C15_DispatchByDeclaredFormat ==
    /\ \A k \in 1..Len(files) :
          LET calls == CallsFor(k - 1)
          IN  IF DeclaredDocx(files[k])
              THEN calls \in {<<>>, <<Event("readDocxFile", k - 1)>>}
              ELSE calls \in {<<>>,
                              <<Event("readAsText", k - 1)>>,
                              <<Event("readAsText", k - 1), Event("convert", k - 1),
                                [ev |-> "converter", idx |-> k - 1,
                                 message |-> <<DeclaredFormat(files[k])>>]>>}
    /\ pc = "done" =>
          \A k, l \in 1..Len(files) :
             (files[k].name = files[l].name /\ files[k].type = files[l].type
                  /\ files[k].readable /\ files[l].readable)
                => [c \in 1..Len(CallsFor(k - 1)) |-> [CallsFor(k - 1)[c] EXCEPT !.idx = 0]]
                     = [c \in 1..Len(CallsFor(l - 1)) |-> [CallsFor(l - 1)[c] EXCEPT !.idx = 0]]

\* a word-processing file and a file declaring both HTML and JSON have been converted
C15_Witness ==
    /\ pc = "done"
    /\ Len(files) = 2
    /\ DeclaredDocx(files[1])
    /\ CallsFor(0) = <<Event("readDocxFile", 0)>>
    /\ files[2].name = <<"e", ".", "j", "s", "o", "n">>
    /\ Len(CallsFor(1)) = 3
    /\ CallsFor(1)[3].message = <<"HTML">>

----------------------------------------------------------------------------
(* processHtmlContent applied to one page.                                 *)

MaxElementsOfPage == 3

PageElements ==
    { Element("div", <<<<"s", "l", "i", "d", "e">>>>, <<>>, FALSE, <<"A">>),
      Element("div", <<<<"s", "l", "i", "d", "e">>, <<"b", "i", "g">>>>, <<>>, FALSE, <<>>),
      Element("section", <<<<"p", "a", "g", "e">>>>, <<>>, FALSE, <<"B", " ", "B">>),
      Element("div", <<>>, <<>>, TRUE, <<"C">>),
      Element("div", <<<<"S", "l", "i", "d", "e", "s">>>>, <<>>, FALSE, <<"D">>),
      Element("div", <<>>, <<"f", "r", "o", "n", "t", "P", "a", "g", "e">>, FALSE, <<"E">>),
      Element("main", <<>>, <<>>, FALSE, <<"F">>),
      Element("p", <<>>, S_main, FALSE, <<"G">>),
      Element("p", <<>>, <<>>, FALSE, <<"H">>) }

PageTexts == { <<"h", "e", "l", "l", "o">>, <<"S", "e", "c", "u", "r", "i", "t", "y", " ", "C",
        "h", "e", "c", "k">>, <<"r", "e", "C", "A", "P", "T", "C", "H", "A", " ", "b", "y", " ",
        "C", "l", "o", "u", "d", "f", "l", "a", "r", "e">> }

PageBodies == { <<>>, <<" ", NL>>, <<"H", " ", "H">> }

S_url == <<"https://docsend.com/view/x">>

Pages ==
    { [html |-> html, elements |-> elements, body |-> body] :
        html \in PageTexts, elements \in SeqsUpTo(PageElements, MaxElementsOfPage),
        body \in PageBodies }

InitHtml ==
    /\ BatchIdle
    /\ CleanupIdle
    /\ DocxIdle
    /\ CsvIdle
    /\ JsonIdle
    /\ TextIdle
    /\ htInput \in Pages
    /\ htOutput = <<>>
    /\ htStage = "content"
    /\ TableIdle /\ XmlIdle /\ DocsendIdle /\ AppIdle

ProcessHtml ==
    /\ htStage = "content"
    /\ htOutput' = processHtmlContent(htInput, S_url)
    /\ htStage' = "settled"
    /\ UNCHANGED <<batchVars, tableVars, xmlVars, docsendVars, appVars, cleanupVars, docxVars,
                   csvVars, jsonVars, textVars, htInput>>

NextHtml == ProcessHtml

SpecHtml == InitHtml /\ [][NextHtml]_vars

\* the characters of a document that come from the page, not from a template
FromPage(content) == SelectSeq(content, LAMBDA c : IsUpper(c) \/ c \in WS)

\* the documents of the given name
Named(documents, name) == {d \in 1..Len(documents) : documents[d].name = name}

\* what the claim says of a page in which segments are detected, or none
SegmentsBecomeDocuments(page, settled) ==
    LET segments == extractSlides(page.elements)
        k == Len(segments)
        SlideName(j) == <<"s", "l", "i", "d", "e",
                "_">> \o (IF j < 10 THEN <<"0">> ELSE <<>>) \o ToDigits(j) \o <<".", "m", "d">>
    IN  IF k >= 1
        THEN /\ settled.ok
             /\ Len(settled.value) = k + 1
             /\ Cardinality(Named(settled.value, <<"f", "u", "l", "l", "_", "p", "r", "e", "s",
                     "e", "n", "t", "a", "t", "i", "o", "n", ".", "m", "d">>)) = 1
             /\ \A j \in 1..k :
                   /\ Cardinality(Named(settled.value, SlideName(j))) = 1
                   /\ \A d \in Named(settled.value, SlideName(j)) :
                         FromPage(settled.value[d].content) = segments[j].markdown
                   /\ \A d \in Named(settled.value, SlideName(j)) :
                         j < k => \A e \in Named(settled.value, SlideName(j + 1)) : d < e
             /\ \A d \in Named(settled.value, <<"f", "u", "l", "l", "_", "p", "r", "e", "s",
                     "e", "n", "t", "a", "t", "i", "o", "n", ".", "m", "d">>) :
                   FromPage(settled.value[d].content)
                      = Concat([j \in 1..k |-> segments[j].markdown])
        ELSE IF Trim(page.body) # <<>>
        THEN /\ settled.ok
             /\ Len(settled.value) = 1
             /\ FromPage(settled.value[1].content) = page.body
        ELSE /\ ~settled.ok
             /\ settled.value = <<"No content found in the HTML">>

\* C14 as stated: k >= 1 detected segments give k + 1 documents, slide_01.md,
\* slide_02.md, ... in the order of the segments and one full_presentation.md
\* that holds all segments in that order; no segment gives one document of
\* the whole body, or, when the body is empty after trimming, no document
\* and the failure 'No content found in the HTML'.
C14_SegmentsBecomeDocuments ==
    htStage = "settled" => SegmentsBecomeDocuments(htInput, htOutput)

\* C14, amended: the same for markup that holds none of the bot-protection
\* keywords; markup that holds one fails with the bot-protection error,
\* whatever its segments.
C14_SegmentsUnlessBotKeyword ==
    htStage = "settled" =>
       IF \E n \in 1..Len(botKeywords) : Includes(ToLowerCase(htInput.html), botKeywords[n])
       THEN /\ ~htOutput.ok
            /\ htOutput.value[1] = "DocSend bot protection detected: \""
       ELSE SegmentsBecomeDocuments(htInput, htOutput)

\* three segments have become four documents
C14_Witness ==
    /\ htStage = "settled"
    /\ Len(extractSlides(htInput.elements)) = 3
    /\ htOutput.ok
    /\ Len(htOutput.value) = 4
    /\ htOutput.value[4].name = <<"s", "l", "i", "d", "e", "_", "0", "3", ".", "m", "d">>

----------------------------------------------------------------------------
(* convertPlainTextToMarkdown applied to one text: the loop over the       *)
(* lines, then the replaces on the joined lines.                           *)

MaxTextBlocks == 1

\* lines and groups of lines of every class, and of two classes at once
TextBlocks ==
    { <<>>,
      <<NL, NL, NL>>,
      <<"p", "l", "a", "i", "n", " ", "t", "e", "x", "t">>,
      <<" ", " ", "t", "w", "o", " ", " ", "w", "o", "r", "d", "s", " ">>,
      <<"a", CR, NL, "b", CR, "c">>,
      <<"1", ".", " ", "I", "T", "E", "M">>,
      <<"-", " ", "A", "B", "C">>,
      <<"-", " ", "i", "f", " ", "x">>,
      <<"a", ".", " ", "f", "(", "x", ")">>,
      <<"'", "x", "(", ")", ";", "'">>,
      <<"1", ".", " ", "I", "T", "E", "M", NL, "-", " ", "i", "f", " ", "x", NL,
        "'", "x", "(", ")", ";", "'", NL, NL, "p">>,
      <<"T", "i", "t", "l", "e", NL, "=", "=", "=">>,
      <<"i", "n", "t", "r", "o", NL, "C", "H", "A", "P", "T", "E", "R", " ", "1">>,
      <<"i", "n", "t", "r", "o", NL, "P", "A", "R", "T", " ", "I", "I">>,
      <<"i", "n", "t", "r", "o", NL, "C", "h", "a", "p", "t", "e", "r", " ", "o", "n",
        "e", NL, "S", "e", "c", "t", "i", "o", "n", " ", "2", NL, "S", "u", "m", "m", "a",
        "r", "y", " ", "o", "f", " ", "i", "t", NL, "N", "O", "T", "E">>,
      <<"i", "n", "t", "r", "o", NL, "C", "H", "A", "P", "T", "E", "R", " ", "O", "N",
        "E", " ", "O", "F", " ", "T", "H", "E", " ", "L", "O", "N", "G", "E", "S", "T", " ",
        "S", "T", "O", "R", "Y", NL, "T", "H", "I", "S", " ", "I", "S", " ", "A", " ", "H",
        "E", "A", "D", "E", "R", " ", "O", "F", " ", "T", "H", "I", "R", "T", "Y", " ", "C",
        "H", "A", "R", "S">>,
      <<NL, " ", " ", NL, "S", "u", "m", "m", "a", "r", "y", " ", "o", "f", " ", "i", "t",
        NL, "O", "v", "e", "r", "v", "i", "e", "w", " ", "o", "f", " ", "i", "t">>,
      <<"a", NL, NL, NL, NL, NL, "b">>,
      <<"p", NL, "s", "e", "c", "t", "i", "o", "n", " ", "t", "w", "o", NL, "S", "E", "C",
        "T", "I", "O", "N", " ", "2", NL, "1", ".", " ", "I", "T", "E", "M">>,
      <<"-", " ", "a", NL, "*", " ", "b", NL, BULLET, " ", "c", NL, "1", ".", " ", "d",
        NL, "a", ".", " ", "e", NL, "i", "i", ".", " ", "f", NL, "x", "i", "v", ".", " ",
        "g">>,
      <<"h", "t", "t", "p", ":", "/", "/", "a", NL, "h", "t", "t", "p", ":", "/", "/",
        "b">>,
      <<"a", NL, " ", " ", "h", "t", "t", "p", ":", "/", "/", "b", " ", " ", NL, "c">>,
      <<"x", NL, "u", "@", "h", ".", "c", "o", NL, "v", "@", "i", ".", "o", "r", "g", NL>>,
      <<"-", " ", "t", NL, "-", "-">>,
      <<">", " ", "s", "a", "i", "d">>,
      <<QUOTE, "s", QUOTE>>,
      <<"Q", "u", "o", "t", "e", ":", " ", "q">>,
      <<" ", " ", " ", " ", "x">>,
      <<"x", " ", "=", " ", "f", "(", ")", ";">>,
      <<"F", "(", "x", ")">>,
      <<"l", "e", "t", " ", "i", "t">>,
      <<"o", "u", "t", "l", "e", "t">>,
      <<"C", "H", "A", "P", "T", "E", "R", " ", "1">>,
      <<"C", "h", "a", "p", "t", "e", "r", " ", "o", "n", "e">>,
      <<"P", "A", "R", "T", " ", "I", "I">>,
      <<"p", "a", "r", "t", " ", "2">>,
      <<"S", "e", "c", "t", "i", "o", "n", " ", "2">>,
      <<"S", "E", "C", "T", "I", "O", "N", " ", "2">>,
      <<"S", "u", "m", "m", "a", "r", "y", " ", "o", "f", " ", "i", "t">>,
      <<"C", "h", "a", "p", "t", "e", "r", "s">>,
      <<"N", "O", "T", "E">>,
      <<"1", "2", "3", "4">>,
      <<"T", "H", "I", "S", " ", "I", "S", " ", "A", " ", "H", "E", "A", "D", "E", "R", " ",
              "O", "F", " ", "T", "H", "I", "R", "T", "Y", " ", "C", "H", "A", "R", "S">>,
      <<"C", "H", "A", "P", "T", "E", "R", " ", "O", "N", "E", " ", "O", "F", " ", "T", "H",
              "E", " ", "L", "O", "N", "G", "E", "S", "T", " ", "S", "T", "O", "R", "Y">>,
      <<"-", " ", "i", "t", "e", "m">>,
      <<"*", TAB, "item">>,
      <<BULLET, " ", " ", "item">>,
      <<"1", "2", ".", " ", "i", "t", "e", "m">>,
      <<"a", ".", " ", " ", "i", "t", "e", "m">>,
      <<"B", ".", " ", "i", "t", "e", "m">>,
      <<"i", "i", ".", " ", "i", "t", "e", "m">>,
      <<"x", "i", "v", ".", " ", "i", "t", "e", "m">>,
      <<"-", ".", " ", "i", "t", "e", "m">>,
      <<"a", ".", "i", "t", "e", "m">>,
      <<"h", "t", "t", "p", ":", "/", "/", "a">>,
      <<"h", "t", "t", "p", "s", ":", "/", "/", "b", ".", "c", "/", "d">>,
      <<"h", "t", "t", "p", ":", "/", "/", "a", " ", "h", "t", "t", "p", "s", ":", "/", "/", "b">>,
      <<"h", "t", "t", "p", ":", "/", "/", "a", TAB, " ", "u", "@", "h", ".", "c", "o">>,
      <<"s", "e", "e", " ", "h", "t", "t", "p", ":", "/", "/", "a", " ", "n", "o", "w">>,
      <<"(", "h", "t", "t", "p", ":", "/", "/", "a", ")">>,
      <<"h", "t", "t", "p", ":", "/", "/">>,
      <<"u", "@", "h", ".", "c", "o">>,
      <<"u", "@", "h", ".", "c", "o", " ", "v", "@", "i", ".", "o", "r", "g">>,
      <<"t", "o", " ", "u", ".", "v", "@", "h", "-", "i", ".", "c", "o", ".", "u", "k", " ",
              "o", "k">>,
      <<"u", "@", "h", ".", "c">>,
      <<"u", "@", "h">>,
      <<"u", "@", "h", ".", "c", "o", ".">> }

RECURSIVE BlocksUpTo(_)
BlocksUpTo(n) ==
    IF n = 0 THEN {<<>>}
    ELSE LET shorter == BlocksUpTo(n - 1)
         IN  shorter \cup {Append(bs, b) : bs \in {t \in shorter : Len(t) = n - 1}, b \in TextBlocks}

\* the texts converted: up to MaxTextBlocks blocks, one below the other
Texts == {Join(bs, <<NL>>) : bs \in BlocksUpTo(MaxTextBlocks)}

InitText ==
    /\ BatchIdle
    /\ CleanupIdle /\ DocxIdle /\ CsvIdle /\ JsonIdle /\ HtmlIdle
    /\ txInput \in Texts
    /\ txOutput = <<>>
    /\ txStage = "input"
    /\ TableIdle /\ XmlIdle /\ DocsendIdle /\ AppIdle

\* lines 917-962: the loop has pushed one processed line for every line
ProcessText ==
    /\ txStage = "input"
    /\ txOutput' = ProcessedLines(txInput)
    /\ txStage' = "lines"
    /\ UNCHANGED <<txInput, batchVars, tableVars, xmlVars, docsendVars, appVars, cleanupVars,
                   docxVars, csvVars, jsonVars, htmlVars>>

\* lines 965-976: the lines are joined, the replaces applied, the text returned
ReturnText ==
    /\ txStage = "lines"
    /\ txOutput' = convertPlainTextToMarkdown(txInput)
    /\ txStage' = "done"
    /\ UNCHANGED <<txInput, batchVars, tableVars, xmlVars, docsendVars, appVars, cleanupVars,
                   docxVars, csvVars, jsonVars, htmlVars>>

\* lines 696-705: convertContentToMarkdown passes what the plain-text converter
\* returned through cleanupMarkdownContent and returns the cleaned content
CleanupText ==
    /\ txStage = "done"
    /\ txOutput' = cleanupMarkdownContent(txOutput)
    /\ txStage' = "cleaned"
    /\ UNCHANGED <<txInput, batchVars, tableVars, xmlVars, docsendVars, appVars, cleanupVars,
                   docxVars, csvVars, jsonVars, htmlVars>>

NextText == ProcessText \/ ReturnText \/ CleanupText

SpecText == InitText /\ [][NextText]_vars

\* the class of a line: the first of Header, List, Code, Quote whose predicate holds
ClassOf(originalLine, nextLine) ==
    LET line == Trim(originalLine)
    IN  CASE isHeader(line, nextLine) -> "Header"
          [] ~isHeader(line, nextLine) /\ isList(line) -> "List"
          [] ~isHeader(line, nextLine) /\ ~isList(line) /\ isCodeLine(originalLine) -> "Code"
          [] ~isHeader(line, nextLine) /\ ~isList(line) /\ ~isCodeLine(originalLine)
               /\ isQuote(line) -> "Quote"
          [] OTHER -> "Paragraph"

\* the trimmed line after position k, empty after the last line
NextLineOf(lines, k) == IF k < Len(lines) THEN Trim(lines[k + 1]) ELSE <<>>

\* whether out is a rendering of the line of the given class
RenderedAs(class, line, out) ==
    CASE class = "Header" ->
           \E level \in 1..6 : out = Repeat("#", level) \o <<" ">> \o line
      [] class = "List" ->
           out = line \/ (StartsWith(out, <<"-", " ">>) /\ ~StartsWith(line, <<"-", " ">>))
      [] class = "Code" -> out = <<" ", " ", " ", " ">> \o line
      [] class = "Quote" -> StartsWith(out, <<">",
              " ">>) /\ EndsWith(out, SubSeq(line, 3, Len(line)))
      [] OTHER -> out = line

\* every line has one processed line, empty for a blank line and otherwise
\* the rendering of the first class whose predicate holds
ClassifiedInOrder(lines, processed) ==
    /\ Len(processed) = Len(lines)
    /\ \A k \in 1..Len(lines) :
          IF Trim(lines[k]) = <<>> THEN processed[k] = <<>>
          ELSE RenderedAs(ClassOf(lines[k], NextLineOf(lines, k)), Trim(lines[k]), processed[k])

\* C16 as stated, of the text convertPlainTextToMarkdown returns: the
\* returned text has one line for each line of the input, an empty one for
\* each blank line.
C16_OneReturnedLinePerLine ==
    txStage = "done" =>
        LET lines == SourceLines(txInput)
            returned == LinesOf(txOutput)
        IN  /\ Len(returned) = Len(lines)
            /\ \A k \in 1..Len(lines) : Trim(lines[k]) = <<>> => returned[k] = <<>>

\* C16, amended: the loop pushes exactly one processed line for every input
\* line, empty for a blank line and otherwise the rendering of the first of
\* Header, List, Code, Quote whose predicate holds, of Paragraph when none
\* holds.
C16_OneProcessedLinePerLine ==
    txStage = "lines" => ClassifiedInOrder(SourceLines(txInput), txOutput)

\* a header that is a list line too, a list line that is code too, code that
\* is a quote too and a blank line have been processed
C16_Witness ==
    /\ txStage = "lines"
    /\ LET lines == SourceLines(txInput)
       IN  /\ \E k \in 1..Len(lines) :
                 /\ isHeader(Trim(lines[k]), NextLineOf(lines, k)) /\ isList(Trim(lines[k]))
                 /\ StartsWith(txOutput[k], <<"#">>)
           /\ \E k \in 1..Len(lines) :
                 /\ ~isHeader(Trim(lines[k]), NextLineOf(lines, k))
                 /\ isList(Trim(lines[k])) /\ isCodeLine(lines[k])
                 /\ txOutput[k] = Trim(lines[k])
           /\ \E k \in 1..Len(lines) :
                 /\ ClassOf(lines[k], NextLineOf(lines, k)) = "Code" /\ isQuote(Trim(lines[k]))
                 /\ StartsWith(txOutput[k], <<" ", " ", " ", " ">>)
           /\ \E k \in 1..Len(lines) : lines[k] = <<>> /\ txOutput[k] = <<>>

\* the level the processed line of a header shows: the number of its leading # signs
LevelShown(out) == RunLen(out, 1, {"#"})

\* whether the line at position k is the first line of lines that is not blank
FirstSignificant(lines, k) == \A j \in 1..(k - 1) : Trim(lines[j]) = <<>>

\* C17: a line classified as Header gets level 1 if it is the first non-blank
\* line or starts with Chapter or Part; otherwise 2 if it is shorter than 30
\* characters and fully upper-case or starts with Section; otherwise 3.
C17_HeaderLevel ==
    txStage = "lines" =>
        LET lines == SourceLines(txInput)
        IN  \A k \in 1..Len(lines) :
               LET line == Trim(lines[k])
               IN  (line # <<>> /\ ClassOf(lines[k], NextLineOf(lines, k)) = "Header") =>
                      LevelShown(txOutput[k]) =
                         (IF FirstSignificant(lines, k)
                             \/ StartsWithWord(line, {<<"C", "h", "a", "p", "t", "e",
                                     "r">>, <<"P", "a", "r", "t">>}) THEN 1
                          ELSE IF (Len(line) < 30 /\ line = ToUpperCase(line))
                                  \/ StartsWithWord(line, {<<"S", "e", "c", "t", "i", "o",
                                          "n">>}) THEN 2
                          ELSE 3)

\* the text of a list item: the line after its marker and the white space that follows it
ItemText(line, markerLen) == SubSeq(line, markerLen + 1 + RunLen(line, markerLen + 1, WS), Len(line))

\* C18: a line classified as List is emitted unchanged when it starts with
\* - or * and white space or with a numeric marker; a leading bullet sign is
\* replaced by "- "; for a letter or a roman numeral marker the output is
\* "- " followed by the item text, the whole marker removed.
C18_ListMarkers ==
    txStage = "lines" =>
        LET lines == SourceLines(txInput)
        IN  \A k \in 1..Len(lines) :
               LET line == Trim(lines[k])
                   letters == RunLen(line, 1, Range(UpperLetters) \cup Range(LowerLetters))
               IN  (line # <<>> /\ ClassOf(lines[k], NextLineOf(lines, k)) = "List") =>
                      txOutput[k] =
                         (IF line[1] \in {"-", "*"} THEN line
                          ELSE IF line[1] = BULLET THEN <<"-", " ">> \o ItemText(line, 1)
                          ELSE IF IsDigit(line[1]) THEN line
                          ELSE <<"-", " ">> \o ItemText(line, letters + 1))

\* the joined and collapsed lines: the text the two link replaces are applied to
TextBeforeLinks(textContent) == CollapseNewlines(Join(ProcessedLines(textContent), <<NL>>), 1)

\* s from position p on with every run of characters between white space (or
\* the ends of s) that is a URL or an e-mail address written as a link, and
\* everything else, the white space included, as it is
RECURSIVE LinkedTokens(_, _)
LinkedTokens(s, p) ==
    IF p > Len(s) THEN <<>>
    ELSE IF s[p] \in WS
    THEN SubSeq(s, p, p + RunLen(s, p, WS) - 1) \o LinkedTokens(s, p + RunLen(s, p, WS))
    ELSE LET n == RunLenNot(s, p, WS)
             token == SubSeq(s, p, p + n - 1)
         IN  (IF UrlLen(s, p) = n
              THEN <<"[">> \o token \o <<"]", "(">> \o token \o <<")">>
              ELSE IF EmailLen(s, p) = n
              THEN <<"[">> \o token \o <<"]", "(">> \o <<"m", "a", "i", "l", "t", "o",
                      ":">> \o token \o <<")">>
              ELSE token)
             \o LinkedTokens(s, p + n)

\* C19: every bare http/https URL and every bare e-mail address delimited by
\* white space or by the start or the end of the text is rewritten to
\* [url](url), respectively [addr](mailto:addr), each of two neighbours
\* separated by one space included, and the white space around it is kept.
C19_EveryBareAddressLinked ==
    txStage = "done" => txOutput = Trim(LinkedTokens(TextBeforeLinks(txInput), 1))

\* the numbers N for which the style is Heading<N>
HeadingNumbers(style) ==
    {n \in 0..MaxHeadingStyle : style \in {S_Heading \o ToDigits(n), S_heading \o ToDigits(n)}}

\* the level the specification gives a paragraph
StatedHeadingLevel(paragraph) ==
    IF HeadingNumbers(paragraph.style) # {} THEN CHOOSE n \in HeadingNumbers(paragraph.style) : TRUE
    ELSE IF Includes(paragraph.style, <<"T", "i", "t", "l", "e">>) THEN 1
    ELSE IF Includes(paragraph.style, <<"S", "u", "b", "t", "i", "t", "l", "e">>) THEN 2
    ELSE IF paragraph.outline # -1
    THEN (IF paragraph.outline + 1 < 6 THEN paragraph.outline + 1 ELSE 6)
    ELSE 0

\* C20: the heading level of a paragraph is N for the style Heading<N>, else
\* 1 for a style containing Title, else 2 for one containing Subtitle, else
\* min(level + 1, 6) for an explicit outline level, else 0; the style takes
\* precedence over the outline level, and a Heading2 paragraph with the one
\* run Intro renders as "## Intro".
C20_HeadingLevelFromStyleThenOutline ==
    dxStage = "done" =>
        /\ dxText # <<>> => HeadingMarkers(dxText) = StatedHeadingLevel(dxParagraph)
        /\ (dxParagraph.style = <<"H", "e", "a", "d", "i", "n", "g", "2">>
              /\ dxParagraph.runs = <<Run(<<"I", "n", "t", "r", "o">>, "absent", "absent")>>)
             => dxText = <<"#", "#", " ", "I", "n", "t", "r", "o">>

\* a Heading2 paragraph with an outline level and the run Intro has been rendered
C20_Witness ==
    /\ dxStage = "done"
    /\ dxParagraph.style = <<"H", "e", "a", "d", "i", "n", "g", "2">>
    /\ dxParagraph.outline = 4
    /\ dxParagraph.runs = <<Run(<<"I", "n", "t", "r", "o">>, "absent", "absent")>>
    /\ dxText = <<"#", "#", " ", "I", "n", "t", "r", "o">>

\* the line without its heading markers
HeadingBody(line) ==
    IF HeadingMarkers(line) > 0 THEN SubSeq(line, HeadingMarkers(line) + 2, Len(line)) ELSE line

\* whether a run property is marked: the element is present and not disabled by the value 0
Marked(property) == property # "absent" /\ property # "0"

\* the text of a run as stated: wrapped in * when italic and in ** when bold,
\* in both when it is both
StatedRunText(run) ==
    LET inner == IF Marked(run.italic) THEN <<"*">> \o run.text \o <<"*">> ELSE run.text
    IN  IF Trim(run.text) = <<>> THEN run.text
        ELSE IF Marked(run.bold) THEN <<"*", "*">> \o inner \o <<"*", "*">>
        ELSE inner

\* the stated texts of the runs from run k on, in document order, joined as
\* extractParagraphText joins them
RECURSIVE StatedRunsText(_, _, _)
StatedRunsText(runs, k, fullText) ==
    IF k > Len(runs) THEN fullText
    ELSE LET withRun == fullText \o StatedRunText(runs[k])
         IN  StatedRunsText(runs, k + 1, withRun \o RunGap(runs, k, withRun))

\* C21: the text of every run with non-blank text is wrapped in ** when the
\* run is bold and in * when it is italic, in both when it is both; a
\* disabled property is ignored; the runs are concatenated in document order.
C21_RunsWrappedByFormatting ==
    dxStage = "done" =>
        HeadingBody(dxText) = Trim(CollapseWhitespace(StatedRunsText(dxParagraph.runs, 1, <<>>), 1))

\* the string representation of a value that is not an object
Shown(value) == IF value.kind = "null" THEN <<"n", "u", "l", "l">> ELSE value.text

\* the array given, when the text is a non-empty array of values none of which is an object
IsArrayOfNonObjects(text) ==
    /\ JSONParse(text).ok
    /\ JSONParse(text).value.kind = "array"
    /\ JSONParse(text).value.items # <<>>
    /\ \A r \in 1..Len(JSONParse(text).value.items) :
          JSONParse(text).value.items[r].kind \in {"null", "boolean", "number", "string"}

\* the distinct string representations of the elements with their numbers of
\* occurrences, the more frequent first and, of two equally frequent, the
\* one seen first
FrequenciesOf(array) ==
    LET all == {Shown(array[k]) : k \in 1..Len(array)}
        Count(key) == Cardinality({k \in 1..Len(array) : Shown(array[k]) = key})
        First(key) == CHOOSE k \in 1..Len(array) :
                          Shown(array[k]) = key /\ \A j \in 1..(k - 1) : Shown(array[j]) # key
        Before(x, y) == Count(x) > Count(y) \/ (Count(x) = Count(y) /\ First(x) < First(y))
    IN  [n \in 1..Cardinality(all) |->
            LET key == CHOOSE x \in all : Cardinality({other \in all : Before(other, x)}) = n - 1
            IN  [key |-> key, count |-> Count(key)]]

\* the lines of the document after the line of the list title and the empty line below it
ListLines(markdown) ==
    LET lines == LinesOf(markdown)
        title == CHOOSE k \in 1..Len(lines) : StartsWith(lines[k], <<"*", "*", "A", "r", "r",
                "a", "y", " ", "L", "i", "s", "t", "*", "*">>)
    IN  SubSeq(lines, title + 2, Len(lines))

\* C22: an array of non-objects longer than 20 becomes a frequency list, one
\* entry per distinct string representation with its number of occurrences,
\* by descending count and, for equal counts, in first-seen order; an array
\* of 20 elements or fewer becomes a numbered list, one line per element,
\* numbered from 1 in array order.
C22_FrequencyOrNumberedList ==
    (jsStage = "converted" /\ IsArrayOfNonObjects(jsInput)) =>
       LET array == JSONParse(jsInput).value.items
           lines == ListLines(jsOutput.value)
           frequencies == FrequenciesOf(array)
       IN  IF Len(array) > 20
           THEN lines = <<<<"*", "*", "I", "t", "e", "m", " ", "c", "o", "u", "n", "t", "s",
                   ":", "*", "*">>>>
                          \o [n \in 1..Len(frequencies) |->
                                <<"-", " ", BACKTICK>> \o frequencies[n].key \o <<BACKTICK, ":",
                                        " ">>
                                   \o ToDigits(frequencies[n].count) \o <<" ", "t", "i", "m",
                                           "e", "s">>]
                          \o << <<>> >>
           ELSE lines = [k \in 1..Len(array) |-> ToDigits(k) \o <<".", " ">> \o Shown(array[k])]
                          \o << <<>> >>

\* an array of more than 20 non-objects whose string representations occur
\* 10, 5, 5 times and once has been converted
C22_Witness ==
    /\ jsStage = "converted"
    /\ IsArrayOfNonObjects(jsInput)
    /\ Len(JSONParse(jsInput).value.items) > 20
    /\ LET frequencies == FrequenciesOf(JSONParse(jsInput).value.items)
       IN  /\ Len(frequencies) = 4
           /\ frequencies[1].count > frequencies[2].count
           /\ frequencies[2].count = frequencies[3].count
           /\ frequencies[4].count = 1
    /\ Len(ListLines(jsOutput.value)) = 6

----------------------------------------------------------------------------
(* The table rule applied to one table.                                    *)

MaxTableRows == 3

TableRows ==
    { <<>>,
      <<Cell("TH", <<"h">>)>>,
      <<Cell("TD", <<" ", "b", " ">>)>>,
      <<Cell("TH", <<"h">>), Cell("TH", <<"k">>)>>,
      <<Cell("TD", <<"c">>), Cell("TD", <<>>)>>,
      <<Cell("TH", <<"r">>), Cell("TD", <<"d">>)>> }

Tables == SeqsUpTo(TableRows, MaxTableRows)

InitTable ==
    /\ BatchIdle /\ CleanupIdle /\ DocxIdle /\ CsvIdle /\ JsonIdle /\ TextIdle /\ HtmlIdle
    /\ XmlIdle /\ DocsendIdle /\ AppIdle
    /\ tbRows \in Tables
    /\ tbMarkdown = <<>>
    /\ tbStage = "table"

ConvertTable ==
    /\ tbStage = "table"
    /\ tbMarkdown' = improvedTables(tbRows)
    /\ tbStage' = "converted"
    /\ UNCHANGED <<tbRows, batchVars, cleanupVars, docxVars, csvVars, jsonVars, textVars, htmlVars,
                   xmlVars, docsendVars, appVars>>

NextTable == ConvertTable

SpecTable == InitTable /\ [][NextTable]_vars

\* whether a row holds a header cell
HasHeaderCell(row) == \E k \in 1..Len(row) : row[k].tagName = "TH"

\* the lines stated for the rows from row k on: one line for every row with
\* cells, holding all its cells, followed by the separator line when the
\* row holds a header cell
RECURSIVE StatedTableLines(_)
StatedTableLines(rows) ==
    IF rows = <<>> THEN <<>>
    ELSE (IF Head(rows) = <<>> THEN <<>>
          ELSE CellsLine(Head(rows))
                  \o (IF HasHeaderCell(Head(rows)) THEN SeparatorLine(Head(rows)) ELSE <<>>))
         \o StatedTableLines(Tail(rows))

\* C23: a row is a header row exactly when it holds a header cell; every row
\* with cells appears exactly once, as a header line followed by the
\* separator line or as a data line, so a first row of td cells is not
\* emitted twice and the th cells of later rows are not dropped.
C23_EveryRowOnce ==
    tbStage = "converted" => tbMarkdown = StatedTableLines(tbRows)

\* C24: every pipe that comes from the content of a cell, of the header as
\* of a data row, is escaped, so each line of the table holds exactly
\* (column count + 1) unescaped pipes.
C24_CellPipesEscaped ==
    csvStage = "converted" =>
       LET width == Len(InputRows(csvInput)[1])
       IN  \A r \in 1..Len(csvOutput.table) :
              Cardinality(UnescapedPipes(csvOutput.table[r])) = width + 1

\* C25: within one batch, files of different names get documents of
\* different names: no two entries of the list returned for them share a name.
C25_DistinctDocumentNames ==
    (pc = "done" /\ result.ok) =>
        \A k, l \in 1..Len(result.value) :
            files[k].name # files[l].name => result.value[k].name # result.value[l].name

\* where the runs of characters between white space start in s
TokenStarts(s) == {p \in 1..Len(s) : s[p] \notin WS /\ (p = 1 \/ s[p - 1] \in WS)}

\* the link for the run at p when the whole run is a URL or an e-mail address
LinkOf(s, p) ==
    LET n == RunLenNot(s, p, WS)
        token == SubSeq(s, p, p + n - 1)
    IN  IF UrlLen(s, p) = n THEN <<"[">> \o token \o <<"]", "(">> \o token \o <<")">>
        ELSE IF EmailLen(s, p) = n
        THEN <<"[">> \o token \o <<"]", "(", "m", "a", "i", "l", "t", "o", ":">> \o token \o <<")">>
        ELSE <<>>

\* the links the plain-text converter produced for the addresses of the text
ProducedLinks(textContent) ==
    LET s == TextBeforeLinks(textContent)
    IN  {l \in {LinkOf(s, p) : p \in TokenStarts(s)} :
            l # <<>> /\ Includes(convertPlainTextToMarkdown(textContent), l)}

\* C26: every link that plain-text auto-linking produced for a URL or an e-mail
\* address between white space is in the cleaned document as it was produced:
\* the target is the URL, or mailto: and the address, no space put into it
C26_LinksSurviveCleanup ==
    txStage = "cleaned" => \A l \in ProducedLinks(txInput) : Includes(txOutput, l)

\* the array given, when the text is a non-empty array
IsNonEmptyArray(text) ==
    /\ JSONParse(text).ok
    /\ JSONParse(text).value.kind = "array"
    /\ JSONParse(text).value.items # <<>>

\* the document has the title of an array table, of an array list
HasArrayTable(markdown) ==
    Includes(markdown, <<"*", "*", "A", "r", "r", "a", "y", " ", "T", "a", "b", "l", "e", "*", "*">>)
HasArrayList(markdown) ==
    Includes(markdown, <<"*", "*", "A", "r", "r", "a", "y", " ", "L", "i", "s", "t", "*", "*">>)

\* C27: the rendering of an array agrees with all of its elements: an array
\* rendered as a table, one row per element, holds no primitive and no null,
\* and an array rendered as a list or frequency list holds no object.
C27_RenderingFitsEveryElement ==
    (jsStage = "converted" /\ IsNonEmptyArray(jsInput)) =>
       LET array == JSONParse(jsInput).value.items
       IN  /\ HasArrayTable(jsOutput.value) => \A k \in 1..Len(array) : IsObjectLike(array[k])
           /\ HasArrayList(jsOutput.value) => \A k \in 1..Len(array) : ~IsObjectLike(array[k])

----------------------------------------------------------------------------
(* convertXmlToMarkdown applied to one content.                            *)

MaxXmlPieces == 3

\* what the contents are made of: tags, text, and angle brackets on their own
XmlPieces ==
    { <<"<", "a", ">">>, <<"<", "/", "a", ">">>, <<"<", "b", " ", "c", "=", "'", "/", "'", "/", ">">>,
      <<"x">>, <<"<">>, <<">">>, <<"/">>, <<NL>> }

RECURSIVE PiecesUpTo(_)
PiecesUpTo(n) ==
    IF n = 0 THEN {<<>>}
    ELSE LET shorter == PiecesUpTo(n - 1)
         IN  shorter \cup {ps \o piece : ps \in shorter, piece \in XmlPieces}

XmlContents == PiecesUpTo(MaxXmlPieces)

InitXml ==
    /\ BatchIdle /\ CleanupIdle /\ DocxIdle /\ CsvIdle /\ JsonIdle /\ TextIdle /\ HtmlIdle
    /\ TableIdle /\ DocsendIdle /\ AppIdle
    /\ xmInput \in XmlContents
    /\ xmOutput = <<>>
    /\ xmStage = "content"

\* lines 896-906: the tags are rewritten, turndown returns, the function returns
ConvertXml ==
    /\ xmStage = "content"
    /\ xmOutput' = convertXmlToMarkdown(xmInput)
    /\ xmStage' = "converted"
    /\ UNCHANGED <<xmInput, batchVars, cleanupVars, docxVars, csvVars, jsonVars, textVars,
                   htmlVars, tableVars, docsendVars, appVars>>

\* lines 907-909: turndown throws, the catch returns the content in a fence
ConvertXmlCaught ==
    /\ xmStage = "content"
    /\ xmOutput' = convertXmlToMarkdownCaught(xmInput)
    /\ xmStage' = "caught"
    /\ UNCHANGED <<xmInput, batchVars, cleanupVars, docxVars, csvVars, jsonVars, textVars,
                   htmlVars, tableVars, docsendVars, appVars>>

NextXml == ConvertXml \/ ConvertXmlCaught

SpecXml == InitXml /\ [][NextXml]_vars

\* C30: the rewriting of the tags gives back the content it was given, so
\* what convertXmlToMarkdown returns is '# XML Content' and the hypertext
\* transform of the content as it was given, or, when the transform throws,
\* '# XML Content' and the content as it was given in a fenced xml block.
C30_TagRewriteIsIdentity ==
    /\ xmStage = "converted" =>
          /\ ReplaceTags(xmInput, 1) = xmInput
          /\ xmOutput = [title |-> XmlTitle, body |-> Turndown(xmInput)]
    /\ xmStage = "caught" =>
          xmOutput = XmlTitle \o <<BACKTICK, BACKTICK, BACKTICK, "x", "m", "l", NL>> \o xmInput
                        \o <<NL, BACKTICK, BACKTICK, BACKTICK, NL>>

\* a content with an opening tag, a closing tag and a lone angle bracket has been converted
C30_Witness ==
    /\ xmStage = "converted"
    /\ Includes(xmInput, <<"<", "a", ">">>)
    /\ Includes(xmInput, <<"<", "/", "a", ">">>)
    /\ xmInput[Len(xmInput)] \in {"<", ">"}
    /\ xmOutput.body = Turndown(xmInput)

----------------------------------------------------------------------------
(* processDocSendLink called with one URL.                                 *)

DocSendUrls ==
    { <<"h", "t", "t", "p", "s", ":", "/", "/", "d", "o", "c", "s", "e", "n", "d", ".", "c",
            "o", "m", "/", "v", "i", "e", "w", "/", "x">>, <<"h", "t", "t", "p", "s", ":", "/",
            "/", "e", "x", "a", "m", "p", "l", "e", ".", "c", "o", "m", "/", "x">>, <<"d", "o",
            "c", "s", "e", "n", "d", ".", "c", "o">>,
      <<"h", "t", "t", "p", ":", "/", "/", "x", "/", "?", "u", "=", "d", "o", "c", "s", "e",
              "n", "d", ".", "c", "o", "m">> }

\* the markups the network can answer with: slides, a body only, a request
\* to verify, nothing
DocSendPages ==
    { [html |-> <<"h", "e", "l", "l", "o">>, elements |-> <<Element("div", <<<<"s", "l", "i",
            "d", "e">>>>, <<>>, FALSE, <<"A">>)>>,
       body |-> <<"A">>],
      [html |-> <<"h", "e", "l", "l", "o">>, elements |-> <<>>, body |-> <<"H", " ", "H">>],
      [html |-> <<"P", "l", "e", "a", "s", "e", " ", "V", "e", "r", "i", "f",
              "y">>, elements |-> <<Element("div", <<<<"s", "l", "i", "d", "e">>>>, <<>>, FALSE,
                                                   <<"A">>)>>, body |-> <<"A">>],
      [html |-> <<"h", "e", "l", "l", "o">>, elements |-> <<>>, body |-> <<" ", NL>>] }

NoPage == [html |-> <<>>, elements |-> <<>>, body |-> <<>>]

InitDocSend ==
    /\ BatchIdle /\ CleanupIdle /\ DocxIdle /\ CsvIdle /\ JsonIdle /\ TextIdle /\ HtmlIdle
    /\ TableIdle /\ XmlIdle /\ AppIdle
    /\ dsUrl \in DocSendUrls
    /\ dsMethod = 0
    /\ dsHtml = NoPage
    /\ dsLastError = <<>>
    /\ dsAttempts = <<>>
    /\ dsOutcomes = <<>>
    /\ dsResult = Rejected(<<"pending">>)
    /\ dsStage = "called"

DocSendOthers == <<batchVars, cleanupVars, docxVars, csvVars, jsonVars, textVars, htmlVars,
                   tableVars, xmlVars, appVars>>

\* lines 99-103 and what follows the loop: the error is kept, the next method
\* is called, or, after the last, the error with the final message is thrown
CatchError(message) ==
    /\ dsLastError' = message
    /\ dsOutcomes' = Append(dsOutcomes, Rejected(message))
    /\ dsHtml' = NoPage
    /\ IF dsMethod < Len(accessMethods)
       THEN /\ dsMethod' = dsMethod + 1
            /\ dsAttempts' = Append(dsAttempts, accessMethods[dsMethod + 1])
            /\ dsStage' = "fetching"
            /\ UNCHANGED dsResult
       ELSE /\ dsResult' = Rejected(FinalMessage(message))
            /\ dsStage' = "settled"
            /\ UNCHANGED <<dsMethod, dsAttempts>>

\* lines 76-91: the URL is checked and the first method called
CallProcessDocSendLink ==
    /\ dsStage = "called"
    /\ IF ~IsDocSendUrl(dsUrl)
       THEN /\ dsResult' = Rejected(<<"Invalid DocSend URL">>)
            /\ dsStage' = "settled"
            /\ UNCHANGED <<dsMethod, dsAttempts>>
       ELSE /\ dsMethod' = 1
            /\ dsAttempts' = <<accessMethods[1]>>
            /\ dsStage' = "fetching"
            /\ UNCHANGED dsResult
    /\ UNCHANGED <<dsUrl, dsHtml, dsLastError, dsOutcomes, DocSendOthers>>

\* line 91: the method called rejects
FetchRejects ==
    /\ dsStage = "fetching"
    /\ \E message \in FetchErrors(accessMethods[dsMethod]) : CatchError(message)
    /\ UNCHANGED <<dsUrl, DocSendOthers>>

\* lines 91-92: the method called returns a markup, extractAndConvertContent is called
FetchReturns ==
    /\ dsStage = "fetching"
    /\ \E page \in DocSendPages : dsHtml' = page
    /\ dsStage' = "extracting"
    /\ UNCHANGED <<dsUrl, dsMethod, dsLastError, dsAttempts, dsOutcomes, dsResult, DocSendOthers>>

\* lines 92-98: extractAndConvertContent settles: its error, or the error of
\* line 95, is caught, or the documents are returned
ExtractSettles ==
    /\ dsStage = "extracting"
    /\ LET extracted == extractAndConvertContent(dsHtml, dsUrl)
       IN  IF ~extracted.ok THEN CatchError(extracted.value)
           ELSE IF Len(extracted.value) = 0
           THEN CatchError(<<"No content found in the DocSend presentation">>)
           ELSE /\ dsResult' = extracted
                /\ dsOutcomes' = Append(dsOutcomes, extracted)
                /\ dsStage' = "settled"
                /\ UNCHANGED <<dsMethod, dsHtml, dsLastError, dsAttempts>>
    /\ UNCHANGED <<dsUrl, DocSendOthers>>

NextDocSend == CallProcessDocSendLink \/ FetchRejects \/ FetchReturns \/ ExtractSettles

SpecDocSend == InitDocSend /\ [][NextDocSend]_vars

\* what holds of the attempts in every state
AttemptsInOrder ==
    /\ dsAttempts = SubSeq(accessMethods, 1, Len(dsAttempts))
    /\ ~IsDocSendUrl(dsUrl) =>
          /\ dsAttempts = <<>>
          /\ dsStage = "settled" => dsResult = Rejected(<<"Invalid DocSend URL">>)
    /\ \A k \in 2..Len(dsAttempts) : k - 1 <= Len(dsOutcomes) /\ ~dsOutcomes[k - 1].ok
    /\ (dsStage = "settled" /\ dsResult.ok) =>
          /\ Len(dsOutcomes) = Len(dsAttempts)
          /\ dsOutcomes[Len(dsOutcomes)] = dsResult
          /\ Len(dsResult.value) > 0
    /\ (dsStage = "settled" /\ ~dsResult.ok /\ IsDocSendUrl(dsUrl)) =>
          /\ dsAttempts = accessMethods
          /\ Len(dsOutcomes) = Len(accessMethods)
          /\ \A k \in 1..Len(dsOutcomes) : ~dsOutcomes[k].ok
          /\ Includes(dsResult.value, dsOutcomes[Len(dsOutcomes)].value)

\* a method is attempted by a step only while the call is not settled, and it
\* is the one after the last attempted
AttemptStep ==
    dsAttempts' # dsAttempts =>
       /\ dsStage # "settled"
       /\ Len(dsAttempts) < Len(accessMethods)
       /\ dsAttempts' = Append(dsAttempts, accessMethods[Len(dsAttempts) + 1])

\* C28: a URL without 'docsend.com' is rejected before any fetch; otherwise
\* the methods are attempted in the order direct fetch, allorigins proxy,
\* cors-anywhere proxy, each only after the one before it failed; the call
\* returns the documents of the first method that succeeds and attempts no
\* method after it; it rejects only after all three failed, with a message
\* holding the error of the last.
C28_MethodsInOrderUntilSuccess == []AttemptsInOrder /\ [][AttemptStep]_vars

\* the first two methods failed and the third returned documents
C28_Witness ==
    /\ dsStage = "settled"
    /\ dsResult.ok
    /\ dsAttempts = accessMethods
    /\ ~dsOutcomes[1].ok /\ ~dsOutcomes[2].ok

\* all three methods failed, the last on a request to verify
C28_WitnessAllFailed ==
    /\ dsStage = "settled"
    /\ ~dsResult.ok
    /\ dsAttempts = accessMethods
    /\ IsBotDetection(dsLastError)

----------------------------------------------------------------------------
(* The App component with its FileUpload.  The state of App is loading,    *)
(* error, progress and markdownFiles (here the number of documents); that  *)
(* of FileUpload is selectedFiles (here their number).  FileUpload reads   *)
(* loading from the props of its last render: React renders again before   *)
(* the next event when an event handler has set state, and at some later   *)
(* moment when the continuation of an await has.  A batch is               *)
(*   [total : files.length, i : the index convertFilesToMarkdown is at,    *)
(*    stage : "converting", "resolved", "rejected" or "finished"].         *)

MaxSelected == 3
MaxBatches == 2

\* mutant: the progress callback counts the file being converted as done
onProgressCounting(current, total) == <<[current |-> current + 1, total |-> total]>>

\* App.tsx lines 23, 26-28: setProgress({ current, total: files.length })
onProgress(current, total) == <<[current |-> current, total |-> total]>>

\* part_003 line 157: disabled={loading || selectedFiles.length === 0}
ConvertDisabled == apShown \/ apSelected = 0

InitApp ==
    /\ BatchIdle /\ CleanupIdle /\ DocxIdle /\ CsvIdle /\ JsonIdle /\ TextIdle /\ HtmlIdle
    /\ TableIdle /\ XmlIdle /\ DocsendIdle
    /\ apSelected = 0
    /\ apLoading = FALSE
    /\ apError = <<>>
    /\ apProgress = <<>>
    /\ apMarkdownFiles = 0
    /\ apShown = FALSE
    /\ apBatches = <<>>
    /\ apStage = "mounted"

AppOthers == <<batchVars, cleanupVars, docxVars, csvVars, jsonVars, textVars, htmlVars,
               tableVars, xmlVars, docsendVars>>

\* part_003 lines 30-61: files are dropped on the zone, whose handlers stay
\* in place while loading, and added to the selected ones
AddFiles ==
    /\ apStage = "mounted"
    /\ \E n \in 1..MaxSelected :
          /\ apSelected + n <= MaxSelected
          /\ apSelected' = apSelected + n
    /\ UNCHANGED <<apLoading, apError, apProgress, apMarkdownFiles, apShown, apBatches, apStage,
                   AppOthers>>

\* part_003 lines 72-81: a file is removed, or all are, by buttons disabled while loading
RemoveFiles ==
    /\ apStage = "mounted"
    /\ ~apShown
    /\ apSelected > 0
    /\ apSelected' \in {apSelected - 1, 0}
    /\ UNCHANGED <<apLoading, apError, apProgress, apMarkdownFiles, apShown, apBatches, apStage,
                   AppOthers>>

\* App.tsx lines 19-26 with part_000 lines 337-350: handleFilesSubmit sets
\* the state and calls convertFilesToMarkdown, which reports the first file
\* and awaits its read, or throws before its loop; React then renders
handleFilesSubmit(total) ==
    /\ apLoading' = TRUE
    /\ apError' = <<>>
    /\ apMarkdownFiles' = 0
    /\ \E thrown \in BOOLEAN :
          IF thrown
          THEN /\ apProgress' = onProgress(0, total)
               /\ apBatches' = Append(apBatches, [total |-> total, i |-> 0, stage |-> "rejected"])
          ELSE /\ apProgress' = onProgress(0, total)
               /\ apBatches' = Append(apBatches, [total |-> total, i |-> 0,
                                                  stage |-> "converting"])
    /\ apShown' = TRUE

\* part_003 lines 66-70: the convert button, when not disabled, is clicked
handleConvert ==
    /\ apStage = "mounted"
    /\ ~ConvertDisabled
    /\ Len(apBatches) < MaxBatches
    /\ IF apSelected > 0 /\ ~apShown
       THEN handleFilesSubmit(apSelected)
       ELSE UNCHANGED <<apLoading, apError, apProgress, apMarkdownFiles, apShown, apBatches>>
    /\ UNCHANGED <<apSelected, apStage, AppOthers>>

\* part_000 lines 350-373: the file at i has been read and converted, or has
\* failed; its document is pushed and the next file, or the end, is reported
FileSettles ==
    /\ apStage = "mounted"
    /\ \E b \in 1..Len(apBatches) :
          /\ apBatches[b].stage = "converting"
          /\ LET batch == apBatches[b]
             IN  /\ apProgress' = onProgress(batch.i + 1, batch.total)
                 /\ apBatches' = [apBatches EXCEPT ![b] =
                        [batch EXCEPT !.i = batch.i + 1,
                                      !.stage = IF batch.i + 1 < batch.total THEN "converting"
                                                ELSE "resolved"]]
    /\ UNCHANGED <<apSelected, apLoading, apError, apMarkdownFiles, apShown, apStage, AppOthers>>

\* App.tsx lines 29-35: the await returns or throws; the documents or the
\* error are set, then loading and progress are reset
FinishBatch ==
    /\ apStage = "mounted"
    /\ \E b \in 1..Len(apBatches) :
          /\ apBatches[b].stage \in {"resolved", "rejected"}
          /\ IF apBatches[b].stage = "resolved"
             THEN apMarkdownFiles' = apBatches[b].total /\ UNCHANGED apError
             ELSE apError' = <<"An error occurred during conversion">> /\ UNCHANGED apMarkdownFiles
          /\ apBatches' = [apBatches EXCEPT ![b].stage = "finished"]
    /\ apLoading' = FALSE
    /\ apProgress' = <<>>
    /\ UNCHANGED <<apSelected, apShown, apStage, AppOthers>>

\* React renders FileUpload with the loading set by a continuation
Render ==
    /\ apStage = "mounted"
    /\ apShown # apLoading
    /\ apShown' = apLoading
    /\ UNCHANGED <<apSelected, apLoading, apError, apProgress, apMarkdownFiles, apBatches, apStage,
                   AppOthers>>

NextApp == AddFiles \/ RemoveFiles \/ handleConvert \/ FileSettles \/ FinishBatch \/ Render

SpecApp == InitApp /\ [][NextApp]_vars

\* every read of a file settles and every continuation of an await runs
SpecAppFair == SpecApp /\ WF_vars(FileSettles) /\ WF_vars(FinishBatch)

\* while a batch is running
WhileRunning ==
    \A b \in 1..Len(apBatches) :
       apBatches[b].stage # "finished" =>
          /\ apLoading
          /\ apProgress # <<>>
          /\ apProgress[1].total = apBatches[b].total
          /\ apProgress[1].total > 0
          /\ 0 <= apProgress[1].current
          /\ apProgress[1].current <= apProgress[1].total

\* a step that starts a batch is taken while loading is false
StartsWhenNotLoading == Len(apBatches') > Len(apBatches) => ~apLoading

\* the n-th batch has ended, with loading false and progress null
Ended(n) ==
    /\ Len(apBatches) >= n
    /\ apBatches[n].stage = "finished"
    /\ \A b \in 1..Len(apBatches) : apBatches[b].stage = "finished"
    /\ ~apLoading
    /\ apProgress = <<>>

\* C29: every batch started in App ends, with loading false and progress
\* null, whether convertFilesToMarkdown resolves or rejects; while a batch
\* is running loading is true, progress.total is the number of files
\* submitted and more than 0, and 0 <= progress.current <= progress.total;
\* no batch is started from FileUpload while loading is true.
C29_BatchEndsAndProgressInRange ==
    /\ []WhileRunning
    /\ [][StartsWhenNotLoading]_vars
    /\ \A n \in 1..MaxBatches : (Len(apBatches) >= n) ~> Ended(n)

\* a second batch, of three files, is at its last file, the first having ended
C29_Witness ==
    /\ Len(apBatches) = 2
    /\ apBatches[1].stage = "finished"
    /\ apLoading
    /\ apBatches[2].stage = "converting"
    /\ apBatches[2].total = 3
    /\ apProgress = <<[current |-> 2, total |-> 3]>>

====
